---- MODULE Spec2Model ----
(***************************************************************************)
(* State-machine model of the context-aware rule engine                    *)
(* (entry/src/main/cpp/context_engine): EventBuffer, soft matcher,         *)
(* decision-tree compiler, RuleEngine::evaluate with per-rule cooldown,    *)
(* category cooldown and global rate limit.                                *)
(*                                                                         *)
(* Conventions.                                                            *)
(*  - A std::string that the code parses (condition keys, condition        *)
(*    values, context values, event types) is a sequence of tokens; a      *)
(*    token is a run of characters without the delimiters ':' and ',',     *)
(*    or one delimiter.  "sequence:a,b" is <<"sequence",":","a",",","b">>. *)
(*    Rule ids, action ids and action types are never parsed and are       *)
(*    plain strings.                                                       *)
(*  - A double is an exact rational <<n, d>> with d > 0, in lowest terms;   *)
(*    the IEEE values +inf, -inf and NaN are <<1, 0>>, <<-1, 0>> and       *)
(*    <<0, 0>>.                                                            *)
(*  - Vector and deque indices of the code are 0-based; TLA+ sequences     *)
(*    are 1-based, so element i of the code is element i + 1 here.         *)
(***************************************************************************)
EXTENDS Integers, Sequences, FiniteSets, TLC

(***************************************************************************)
(* Bounds of the model (not program constants).                            *)
(***************************************************************************)
\* capacity of the EventBuffer instance that is explored (the engine builds
\* its buffer with 100; the class takes any capacity)
maxSize_ == 3
\* a run takes at most this many 1 ms clock steps between two hour steps
MaxSmallTicks == 2
\* a run takes at most this many one-hour clock steps
MaxHourTicks == 1
\* evaluate is explored until this many firings have been recorded
MaxFirings == 2
\* addRule appends only while the rule array is shorter than this
MaxRules == 3
\* reading of the steady clock when the engine is constructed
MaxDayTicks == 1
\* updates of one bandit arm
MaxPulls == 5
BootTime == 90000000

(***************************************************************************)
(* Program constants.                                                      *)
(***************************************************************************)
MAX_AGE_MS == 86400000
HOUR_MS == 3600000
\* bestAvg of MAB::select before the first candidate is looked at (-1e9)
BEST_AVG_START == -1000000000

(***************************************************************************)
(* Doubles as exact rationals.                                             *)
(***************************************************************************)
RECURSIVE GCD(_, _)
GCD(a, b) == IF b = 0 THEN a ELSE GCD(b, a % b)

Abs(x) == IF x < 0 THEN -x ELSE x

RNorm(n, d) ==
    LET g == GCD(Abs(n), Abs(d))
        s == IF d < 0 THEN -1 ELSE 1
    IN  IF d = 0 THEN <<(IF n > 0 THEN 1 ELSE IF n < 0 THEN -1 ELSE 0), 0>>
        ELSE IF n = 0 THEN <<0, 1>> ELSE <<(s * n) \div g, (s * d) \div g>>

RInt(i) == <<i, 1>>
RZero == <<0, 1>>
ROne == <<1, 1>>
RHalf == <<1, 2>>
RTenth == <<1, 10>>
RHundredth == <<1, 100>>
RInf == <<1, 0>>
RNegInf == <<-1, 0>>
RNaN == <<0, 0>>
IsInf(a) == a[2] = 0 /\ a[1] # 0

\* IEEE 754: inf * 0, inf - inf and inf / inf are NaN; every comparison with
\* NaN is false
RMul(a, b) == RNorm(a[1] * b[1], a[2] * b[2])
RAdd(a, b) ==
    IF IsInf(a) /\ IsInf(b) THEN (IF a = b THEN a ELSE RNaN)
    ELSE RNorm(a[1] * b[2] + b[1] * a[2], a[2] * b[2])
RSub(a, b) ==
    IF IsInf(a) /\ IsInf(b) THEN (IF a = b THEN RNaN ELSE a)
    ELSE RNorm(a[1] * b[2] - b[1] * a[2], a[2] * b[2])
RDiv(a, b) ==
    IF IsInf(a)
    THEN (IF b[2] = 0 THEN RNaN ELSE <<(IF b[1] < 0 THEN -a[1] ELSE a[1]), 0>>)
    ELSE RNorm(a[1] * b[2], a[2] * b[1])
\* a < b for finite a and b: the integer parts decide, and the fractional
\* parts when these are equal (no product of a numerator of one with the
\* denominator of the other is formed, so that values as large as 1e9 can
\* be compared with small fractions)
FiniteLt(a, b) ==
    IF a[1] \div a[2] # b[1] \div b[2] THEN a[1] \div a[2] < b[1] \div b[2]
    ELSE (a[1] % a[2]) * b[2] < (b[1] % b[2]) * a[2]
RLt(a, b) ==
    IF a[2] = 0 \/ b[2] = 0
    THEN (IF IsInf(a) /\ IsInf(b) THEN a[1] < b[1] ELSE a[1] * b[2] < b[1] * a[2])
    ELSE FiniteLt(a, b)
RLe(a, b) ==
    IF a = RNaN \/ b = RNaN THEN FALSE
    ELSE IF IsInf(a) /\ IsInf(b) THEN a[1] <= b[1]
    ELSE IF a[2] = 0 \/ b[2] = 0 THEN a[1] * b[2] <= b[1] * a[2]
    ELSE a = b \/ FiniteLt(a, b)
\* std::max(a, b) is (a < b) ? b : a
RMax(a, b) == IF RLt(a, b) THEN b ELSE a
RAbs(a) == <<Abs(a[1]), a[2]>>

(***************************************************************************)
(* String parsing helpers.                                                 *)
(***************************************************************************)
\* numeric tokens of the model and the integer / real each denotes
IntTokens ==
    [t \in {"0", "1", "2", "3", "20", "5000"} |->
        CASE t = "0" -> 0 [] t = "1" -> 1 [] t = "2" -> 2 [] t = "3" -> 3
          [] t = "20" -> 20 [] t = "5000" -> 5000]

RealTokens ==
    [t \in {"0", "1", "2", "3", "20", "22", "20.5", "5000", "9", "12", "17", "17.5",
            "-20", "-20.5", "-22", "21.5", "inf", "-inf", "nan"} |->
        CASE t = "0" -> RInt(0) [] t = "1" -> RInt(1) [] t = "2" -> RInt(2)
          [] t = "3" -> RInt(3) [] t = "20" -> RInt(20) [] t = "22" -> RInt(22)
          [] t = "20.5" -> <<41, 2>> [] t = "5000" -> RInt(5000)
          [] t = "9" -> RInt(9) [] t = "12" -> RInt(12) [] t = "17" -> RInt(17)
          [] t = "17.5" -> <<35, 2>> [] t = "-20" -> RInt(-20)
          [] t = "-20.5" -> <<-41, 2>> [] t = "-22" -> RInt(-22)
          [] t = "21.5" -> <<43, 2>>
          \* std::stod reads the IEEE specials
          [] t = "inf" -> RInf [] t = "-inf" -> RNegInf [] t = "nan" -> RNaN]

\* std::stoll(s): the leading integer of s; throws when s does not start
\* with one.  StollOk tells whether it returns.
StollOk(s) == Len(s) >= 1 /\ s[1] \in DOMAIN IntTokens
Stoll(s) == IntTokens[s[1]]

\* tryParseDouble(s, out): std::stod must consume the whole string
tryParseDouble(s) == Len(s) = 1 /\ s[1] \in DOMAIN RealTokens
ParsedDouble(s) == RealTokens[s[1]]

\* extractAfterPrefix(key, prefix): the rest of key after prefix, or ""
extractAfterPrefix(key, prefix) ==
    IF Len(key) > Len(prefix) /\ SubSeq(key, 1, Len(prefix)) = prefix
    THEN SubSeq(key, Len(prefix) + 1, Len(key))
    ELSE <<>>

\* std::string::find(','): the first position of a comma, 0 when none
FindComma(s) ==
    IF \E i \in 1..Len(s) : s[i] = ","
    THEN CHOOSE i \in 1..Len(s) : s[i] = "," /\ \A j \in 1..(i - 1) : s[j] # ","
    ELSE 0

\* extractSequencePair("sequence:typeA,typeB") = <<typeA, typeB>>
extractSequencePair(key) ==
    LET body == extractAfterPrefix(key, <<"sequence", ":">>)
        comma == FindComma(body)
    IN  IF comma = 0 THEN << <<>>, <<>> >>
        ELSE <<SubSeq(body, 1, comma - 1), SubSeq(body, comma + 1, Len(body))>>

\* splitCsv(s): the comma-separated items of s, blanks trimmed, empty items
\* dropped
RECURSIVE splitCsv(_)
splitCsv(s) ==
    LET comma == FindComma(s)
        item == IF comma = 0 THEN s ELSE SubSeq(s, 1, comma - 1)
        trimmed == SelectSeq(item, LAMBDA t : t # " ")
        rest == IF comma = 0 THEN <<>> ELSE splitCsv(SubSeq(s, comma + 1, Len(s)))
    IN  IF s = <<>> THEN <<>>
        ELSE IF trimmed = <<>> THEN rest ELSE <<trimmed>> \o rest

(***************************************************************************)
(* softMatch (soft_match.cpp): one condition against a context, 0..1.      *)
(* ctx is a function from the keys present to their values.                *)
(***************************************************************************)
\* mutation of SoftDecay: the result is not floored at 0
SoftDecayUnfloored(diff, margin) == RSub(ROne, RDiv(diff, margin))

\* mutation of SoftDecay: the margin is taken to be 1
SoftDecayUnitMargin(diff, margin) == RMax(RZero, RSub(ROne, diff))

SoftDecay(diff, margin) == RMax(RZero, RSub(ROne, RDiv(diff, margin)))

softMatchNumeric(op, actualNum, valueNum, value) ==
    LET margin == RMax(RMul(RAbs(valueNum), RTenth), ROne)
    IN  CASE op = "gt" ->
               IF RLt(valueNum, actualNum) THEN ROne
               ELSE SoftDecay(RSub(valueNum, actualNum), margin)
          [] op = "gte" ->
               IF RLe(valueNum, actualNum) THEN ROne
               ELSE SoftDecay(RSub(valueNum, actualNum), margin)
          [] op = "lt" ->
               IF RLt(actualNum, valueNum) THEN ROne
               ELSE SoftDecay(RSub(actualNum, valueNum), margin)
          [] op = "lte" ->
               IF RLe(actualNum, valueNum) THEN ROne
               ELSE SoftDecay(RSub(actualNum, valueNum), margin)
          [] op = "range" ->
               LET parts == splitCsv(value)
               IN  IF Len(parts) # 2 THEN RZero
                   ELSE IF ~tryParseDouble(parts[1]) \/ ~tryParseDouble(parts[2])
                        THEN RZero
                   ELSE LET lo == ParsedDouble(parts[1])
                            hi == ParsedDouble(parts[2])
                            dist == IF RLt(actualNum, lo) THEN RSub(lo, actualNum)
                                    ELSE RSub(actualNum, hi)
                            rangeMargin == RMax(RMul(RSub(hi, lo), RTenth), ROne)
                        IN  IF RLe(lo, actualNum) /\ RLe(actualNum, hi) THEN ROne
                            ELSE SoftDecay(dist, rangeMargin)
          [] OTHER -> RZero

\* softMatch once the key has been found: actual is it->second
softMatchPresent(cond, actual) ==
    CASE cond.op = "eq" -> IF actual = cond.value THEN ROne ELSE RZero
      [] cond.op = "neq" -> IF actual # cond.value THEN ROne ELSE RZero
      [] cond.op = "in" ->
           LET options == splitCsv(cond.value)
           IN  IF \E i \in 1..Len(options) : actual = options[i]
               THEN ROne ELSE RZero
      [] OTHER ->
           IF ~tryParseDouble(actual) \/ ~tryParseDouble(cond.value)
           THEN (IF actual = cond.value THEN ROne ELSE RZero)
           ELSE softMatchNumeric(cond.op, ParsedDouble(actual),
                                 ParsedDouble(cond.value), cond.value)

\* mutation of softMatch: a missing key scores 0
softMatchMissingZero(cond, ctx) ==
    IF cond.key \notin DOMAIN ctx THEN RZero
    ELSE softMatchPresent(cond, ctx[cond.key])

\* mutation of softMatch: eq and neq take a missing key as a value that
\* differs from the condition's
softMatchMissingUnequal(cond, ctx) ==
    IF cond.key \notin DOMAIN ctx
    THEN (IF cond.op = "eq" THEN RZero ELSE IF cond.op = "neq" THEN ROne ELSE RHalf)
    ELSE softMatchPresent(cond, ctx[cond.key])

softMatch(cond, ctx) ==
    IF cond.key \notin DOMAIN ctx THEN RHalf
    ELSE softMatchPresent(cond, ctx[cond.key])

(***************************************************************************)
(* EventBuffer (rule_engine.cpp 20-86).  events is the deque events_,      *)
(* oldest first; an event is [timestampMs, eventType].                     *)
(***************************************************************************)
\* expireOld(): drop from the front while the front is older than 24 h
RECURSIVE expireOld(_, _)
expireOld(events, now) ==
    IF events # <<>> /\ events[1].timestampMs < now - MAX_AGE_MS
    THEN expireOld(Tail(events), now)
    ELSE events

\* mutation of push: a full buffer loses its newest event, not its oldest
pushEvictNewest(events, event, now) ==
    LET expired == expireOld(events, now)
        room == IF Len(expired) >= maxSize_
                THEN SubSeq(expired, 1, Len(expired) - 1) ELSE expired
    IN  Append(room, event)

\* mutation of push: a full buffer is not relieved of its oldest event
pushNoEvict(events, event, now) == Append(expireOld(events, now), event)

\* push(event)
push(events, event, now) ==
    LET expired == expireOld(events, now)
        room == IF Len(expired) >= maxSize_ THEN Tail(expired) ELSE expired
    IN  Append(room, event)

\* the backward scan of hasRecent, from position i (1-based) down
RECURSIVE ScanRecent(_, _, _, _)
ScanRecent(events, i, cutoff, eventType) ==
    IF i = 0 THEN FALSE
    ELSE IF events[i].timestampMs < cutoff THEN FALSE
    ELSE IF events[i].eventType = eventType THEN TRUE
    ELSE ScanRecent(events, i - 1, cutoff, eventType)

\* mutation of hasRecent: the window is not looked at
hasRecentAnyAge(events, now, eventType, withinMs) ==
    \E i \in 1..Len(events) : events[i].eventType = eventType

hasRecent(events, now, eventType, withinMs) ==
    ScanRecent(events, Len(events), now - withinMs, eventType)

\* first loop of hasSequence: timestamp of the latest B in the window, or -1
RECURSIVE ScanLatestB(_, _, _, _)
ScanLatestB(events, i, cutoff, eventB) ==
    IF i = 0 THEN -1
    ELSE IF events[i].timestampMs < cutoff THEN -1
    ELSE IF events[i].eventType = eventB THEN events[i].timestampMs
    ELSE ScanLatestB(events, i - 1, cutoff, eventB)

\* second loop of hasSequence: an A in the window strictly before latestB
RECURSIVE ScanBefore(_, _, _, _, _)
ScanBefore(events, i, cutoff, eventA, latestB) ==
    IF i = 0 THEN FALSE
    ELSE IF events[i].timestampMs < cutoff THEN FALSE
    ELSE IF events[i].eventType = eventA /\ events[i].timestampMs < latestB THEN TRUE
    ELSE ScanBefore(events, i - 1, cutoff, eventA, latestB)

\* mutation of hasSequence: an A at the timestamp of the latest B counts
hasSequenceOrSame(events, now, eventA, eventB, withinMs) ==
    LET cutoff == now - withinMs
        latestB == ScanLatestB(events, Len(events), cutoff, eventB)
    IN  IF latestB < 0 THEN FALSE
        ELSE ScanBefore(events, Len(events), cutoff, eventA, latestB + 1)

hasSequence(events, now, eventA, eventB, withinMs) ==
    LET cutoff == now - withinMs
        latestB == ScanLatestB(events, Len(events), cutoff, eventB)
    IN  IF latestB < 0 THEN FALSE
        ELSE ScanBefore(events, Len(events), cutoff, eventA, latestB)

(***************************************************************************)
(* RuleEngine::matchCondition (rule_engine.cpp 157-177)                    *)
(***************************************************************************)
matchCondition(cond, ctx, events, now) ==
    IF cond.op = "recent" THEN
        LET eventType == extractAfterPrefix(cond.key, <<"event", ":">>)
        IN  IF eventType = <<>> THEN RZero
            ELSE IF ~StollOk(cond.value) THEN RZero
            ELSE IF hasRecent(events, now, eventType, Stoll(cond.value))
                 THEN ROne ELSE RZero
    ELSE IF cond.op = "within" THEN
        LET pair == extractSequencePair(cond.key)
        IN  IF pair[1] = <<>> \/ pair[2] = <<>> THEN RZero
            ELSE IF ~StollOk(cond.value) THEN RZero
            ELSE IF hasSequence(events, now, pair[1], pair[2], Stoll(cond.value))
                 THEN ROne ELSE RZero
    ELSE softMatch(cond, ctx)

(***************************************************************************)
(* Decision-tree compiler (decision_tree.cpp).                             *)
(* A rule is [id, conditions, action: [id, type], priority, cooldownMs,    *)
(* enabled]; a condition is [key, op, value].  A tree node is              *)
(* [splitKey, branches, defaultChild, ruleIndices]; splitKey <<>> marks a  *)
(* leaf, branches is a sequence of <<value, childIdx>>, indices 0-based.   *)
(* hashOrd lists the strings in the order in which an unordered_map of     *)
(* the build iterates over them.                                           *)
(***************************************************************************)
featureCost(key) ==
    IF key \in {<<"timeOfDay">>, <<"dayOfWeek">>, <<"isWeekend">>, <<"hour">>,
                <<"minute">>} THEN 0
    ELSE IF key \in {<<"batteryLevel">>, <<"isCharging">>, <<"networkType">>} THEN 1
    ELSE IF key \in {<<"motionState">>, <<"stepCount">>} THEN 2
    ELSE IF key \in {<<"geofence">>, <<"location">>, <<"latitude">>, <<"longitude">>}
         THEN 3
    ELSE 2

\* the strings of set S in iteration order
RECURSIVE InHashOrder(_, _)
InHashOrder(hashOrd, S) ==
    IF hashOrd = <<>> THEN <<>>
    ELSE (IF Head(hashOrd) \in S THEN <<Head(hashOrd)>> ELSE <<>>)
         \o InHashOrder(Tail(hashOrd), S)

\* the conditions of the rules in indices, as <<position in indices, position
\* in the rule's condition list>>
ConditionSlots(rules, indices) ==
    UNION {{<<i, j>> : j \in 1..Len(rules[indices[i] + 1].conditions)} :
              i \in 1..Len(indices)}

\* keyCount[key] of pickSplitKey: the number of those conditions on key
KeyCount(rules, indices, key) ==
    Cardinality({s \in ConditionSlots(rules, indices) :
                    rules[indices[s[1]] + 1].conditions[s[2]].key = key})

\* the loop over keyCount: the first key, in iteration order, whose score
\* count / (1 + cost) is strictly above every earlier one
RECURSIVE BestKey(_, _, _, _, _, _)
BestKey(rules, indices, keys, bestKey, bestNum, bestDen) ==
    IF keys = <<>> THEN bestKey
    ELSE LET key == Head(keys)
             num == KeyCount(rules, indices, key)
             den == 1 + featureCost(key)
         IN  IF num * bestDen > bestNum * den
             THEN BestKey(rules, indices, Tail(keys), key, num, den)
             ELSE BestKey(rules, indices, Tail(keys), bestKey, bestNum, bestDen)

pickSplitKey(rules, indices, usedKeys, hashOrd) ==
    LET counted == {rules[indices[s[1]] + 1].conditions[s[2]].key :
                      s \in ConditionSlots(rules, indices)} \ usedKeys
    IN  IF counted = {} THEN <<>>
        ELSE BestKey(rules, indices, InHashOrder(hashOrd, counted), <<>>, -1, 1)

EmptyNode == [splitKey |-> <<>>, branches |-> <<>>, defaultChild |-> 0,
              ruleIndices |-> <<>>]

\* the first eq condition of rule on splitKey: its value, or <<>> when the
\* rule has none (the rule then goes to noCondition)
GroupValue(rule, splitKey) ==
    LET hits == {j \in 1..Len(rule.conditions) :
                    rule.conditions[j].key = splitKey /\ rule.conditions[j].op = "eq"}
    IN  IF hits = {} THEN <<>>
        ELSE rule.conditions[CHOOSE j \in hits : \A k \in hits : j <= k].value

HasGroup(rule, splitKey) ==
    \E j \in 1..Len(rule.conditions) :
        rule.conditions[j].key = splitKey /\ rule.conditions[j].op = "eq"

\* the child index written into a branch or into defaultChild: tree_.size()
\* at the time the branch is created
ChildIndex(tree) == Len(tree)

\* mutation of IsLeafTask: the depth test lets one more level through
IsLeafTaskDeeper(rules, task, hashOrd) ==
    \/ pickSplitKey(rules, task.indices, task.usedKeys, hashOrd) = <<>>
    \/ Len(task.indices) <= 2
    \/ Cardinality(task.usedKeys) > 5

\* the leaf test of compileTree: no split key, few rules, or maximal depth
IsLeafTask(rules, task, hashOrd) ==
    \/ pickSplitKey(rules, task.indices, task.usedKeys, hashOrd) = <<>>
    \/ Len(task.indices) <= 2
    \/ Cardinality(task.usedKeys) >= 5

\* the while loop of compileTree over the stack of build tasks
RECURSIVE CompileLoop(_, _, _, _)
CompileLoop(rules, tree, stack, hashOrd) ==
    IF stack = <<>> THEN tree
    ELSE
    LET task == stack[Len(stack)]
        rest == SubSeq(stack, 1, Len(stack) - 1)
        nodeIdx == IF task.parentIdx = -1 THEN 0 ELSE Len(tree)
        tree1 == IF task.parentIdx # -1 THEN Append(tree, EmptyNode) ELSE tree
        splitKey == pickSplitKey(rules, task.indices, task.usedKeys, hashOrd)
    IN  IF IsLeafTask(rules, task, hashOrd)
        THEN CompileLoop(rules,
                 [tree1 EXCEPT ![nodeIdx + 1] =
                     [splitKey |-> <<>>, branches |-> <<>>, defaultChild |-> -1,
                      ruleIndices |-> task.indices]],
                 rest, hashOrd)
        ELSE
        LET noCondition ==
                SelectSeq(task.indices, LAMBDA idx : ~HasGroup(rules[idx + 1], splitKey))
            values == {GroupValue(rules[task.indices[i] + 1], splitKey) :
                          i \in {i \in 1..Len(task.indices) :
                                    HasGroup(rules[task.indices[i] + 1], splitKey)}}
            groupValues == InHashOrder(hashOrd, values)
            group(v) ==
                SelectSeq(task.indices,
                          LAMBDA idx : /\ HasGroup(rules[idx + 1], splitKey)
                                       /\ GroupValue(rules[idx + 1], splitKey) = v)
            childUsedKeys == task.usedKeys \cup {splitKey}
            branches == [k \in 1..Len(groupValues) |->
                            <<groupValues[k], ChildIndex(tree1)>>]
            groupTasks == [k \in 1..Len(groupValues) |->
                              [indices |-> group(groupValues[k]) \o noCondition,
                               usedKeys |-> childUsedKeys, parentIdx |-> nodeIdx]]
            defaultTask == IF noCondition # <<>>
                           THEN <<[indices |-> noCondition, usedKeys |-> childUsedKeys,
                                   parentIdx |-> nodeIdx]>>
                           ELSE <<>>
            defaultChild == IF noCondition # <<>>
                            THEN ChildIndex(tree1) ELSE -1
        IN  CompileLoop(rules,
                [tree1 EXCEPT ![nodeIdx + 1] =
                    [splitKey |-> splitKey, branches |-> branches,
                     defaultChild |-> defaultChild, ruleIndices |-> <<>>]],
                rest \o groupTasks \o defaultTask, hashOrd)

\* the indices of the enabled rules, in order
EnabledIndices(rules) ==
    LET all == [i \in 1..Len(rules) |-> i - 1]
    IN  SelectSeq(all, LAMBDA idx : rules[idx + 1].enabled)

compileTree(rules, hashOrd) ==
    IF rules = <<>> THEN <<>>
    ELSE CompileLoop(rules, <<EmptyNode>>,
                     <<[indices |-> EnabledIndices(rules), usedKeys |-> {},
                        parentIdx |-> -1]>>,
                     hashOrd)

\* the rules of indices without an eq condition on splitKey
NoCondition(rules, indices, splitKey) ==
    SelectSeq(indices, LAMBDA idx : ~HasGroup(rules[idx + 1], splitKey))

\* groups[v]: the rules of indices whose first eq condition on splitKey has
\* the value v
Group(rules, indices, splitKey, v) ==
    SelectSeq(indices, LAMBDA idx : /\ HasGroup(rules[idx + 1], splitKey)
                                    /\ GroupValue(rules[idx + 1], splitKey) = v)

\* the keys of groups, in iteration order
GroupValues(rules, indices, splitKey, hashOrd) ==
    InHashOrder(hashOrd,
                {GroupValue(rules[indices[i] + 1], splitKey) :
                    i \in {i \in 1..Len(indices) :
                              HasGroup(rules[indices[i] + 1], splitKey)}})

\* the build tasks in the order of the nodes they were compiled into:
\* built[n + 1] is the BuildTask popped when the node of index n was made
\* (size is tree_.size())
RECURSIVE BuildLog(_, _, _, _, _)
BuildLog(rules, size, built, stack, hashOrd) ==
    IF stack = <<>> THEN built
    ELSE
    LET task == stack[Len(stack)]
        rest == SubSeq(stack, 1, Len(stack) - 1)
        nodeIdx == IF task.parentIdx = -1 THEN 0 ELSE size
        size1 == IF task.parentIdx # -1 THEN size + 1 ELSE size
        built1 == IF task.parentIdx # -1 THEN Append(built, task)
                  ELSE [built EXCEPT ![1] = task]
        splitKey == pickSplitKey(rules, task.indices, task.usedKeys, hashOrd)
    IN  IF IsLeafTask(rules, task, hashOrd)
        THEN BuildLog(rules, size1, built1, rest, hashOrd)
        ELSE
        LET noCondition == NoCondition(rules, task.indices, splitKey)
            groupValues == GroupValues(rules, task.indices, splitKey, hashOrd)
            childUsedKeys == task.usedKeys \cup {splitKey}
            groupTasks == [k \in 1..Len(groupValues) |->
                              [indices |-> Group(rules, task.indices, splitKey,
                                                 groupValues[k]) \o noCondition,
                               usedKeys |-> childUsedKeys, parentIdx |-> nodeIdx,
                               branchValue |-> groupValues[k]]]
            defaultTask == IF noCondition # <<>>
                           THEN <<[indices |-> noCondition, usedKeys |-> childUsedKeys,
                                   parentIdx |-> nodeIdx,
                                   branchValue |-> <<"__default__">>]>>
                           ELSE <<>>
        IN  BuildLog(rules, size1, built1, rest \o groupTasks \o defaultTask, hashOrd)

\* the BuildTask of every node of compileTree(rules, hashOrd)
BuildTasks(rules, hashOrd) ==
    IF rules = <<>> THEN <<>>
    ELSE LET root == [indices |-> EnabledIndices(rules), usedKeys |-> {},
                      parentIdx |-> -1, branchValue |-> <<>>]
         IN  BuildLog(rules, 1, <<root>>, <<root>>, hashOrd)

(***************************************************************************)
(* Cooldown and rate limiter (rule_engine.cpp 179-209).                    *)
(* cat is categoryFirings_ (a function from the action types that have a   *)
(* deque to that deque), glob is globalFirings_, limits is rateLimits_.    *)
(***************************************************************************)
\* while (!q.empty() && q.front() < cutoff) q.pop_front()
RECURSIVE TrimFront(_, _)
TrimFront(q, cutoff) ==
    IF q # <<>> /\ q[1] < cutoff THEN TrimFront(Tail(q), cutoff) ELSE q

\* mutation of isRateLimited: the global gate blocks only at exactly
\* globalMaxPerHour firings
isRateLimitedAtExactly(action, now, cat, glob, limits) ==
    LET hasCat == action.type \in DOMAIN cat
        timestamps == IF hasCat
                      THEN TrimFront(cat[action.type],
                                     now - limits.categoryCooldownWindowMs)
                      ELSE <<>>
        cat1 == IF hasCat THEN [cat EXCEPT ![action.type] = timestamps] ELSE cat
        glob1 == TrimFront(glob, now - HOUR_MS)
    IN  IF hasCat /\ Len(timestamps) >= limits.categoryCooldownCount
        THEN [limited |-> TRUE, cat |-> cat1, glob |-> glob]
        ELSE [limited |-> Len(glob1) = limits.globalMaxPerHour,
              cat |-> cat1, glob |-> glob1]

\* mutation of isRateLimited: the global gate never blocks
isRateLimitedNoGlobal(action, now, cat, glob, limits) ==
    LET hasCat == action.type \in DOMAIN cat
        timestamps == IF hasCat
                      THEN TrimFront(cat[action.type],
                                     now - limits.categoryCooldownWindowMs)
                      ELSE <<>>
        cat1 == IF hasCat THEN [cat EXCEPT ![action.type] = timestamps] ELSE cat
    IN  IF hasCat /\ Len(timestamps) >= limits.categoryCooldownCount
        THEN [limited |-> TRUE, cat |-> cat1, glob |-> glob]
        ELSE [limited |-> FALSE, cat |-> cat1, glob |-> TrimFront(glob, now - HOUR_MS)]

\* mutation of isRateLimited: the category gate never blocks
isRateLimitedNoCategory(action, now, cat, glob, limits) ==
    LET glob1 == TrimFront(glob, now - HOUR_MS)
    IN  [limited |-> Len(glob1) >= limits.globalMaxPerHour, cat |-> cat, glob |-> glob1]

\* mutation of isRateLimited: a consult that lets the action pass counts it
\* in the global deque at once
isRateLimitedCounting(action, now, cat, glob, limits) ==
    LET hasCat == action.type \in DOMAIN cat
        timestamps == IF hasCat
                      THEN TrimFront(cat[action.type],
                                     now - limits.categoryCooldownWindowMs)
                      ELSE <<>>
        cat1 == IF hasCat THEN [cat EXCEPT ![action.type] = timestamps] ELSE cat
        glob1 == TrimFront(glob, now - HOUR_MS)
    IN  IF hasCat /\ Len(timestamps) >= limits.categoryCooldownCount
        THEN [limited |-> TRUE, cat |-> cat1, glob |-> glob]
        ELSE IF Len(glob1) >= limits.globalMaxPerHour
        THEN [limited |-> TRUE, cat |-> cat1, glob |-> glob1]
        ELSE [limited |-> FALSE, cat |-> cat1, glob |-> Append(glob1, now)]

\* isRateLimited(action, now): the answer and the deques it leaves behind
isRateLimited(action, now, cat, glob, limits) ==
    LET hasCat == action.type \in DOMAIN cat
        timestamps == IF hasCat
                      THEN TrimFront(cat[action.type],
                                     now - limits.categoryCooldownWindowMs)
                      ELSE <<>>
        cat1 == IF hasCat THEN [cat EXCEPT ![action.type] = timestamps] ELSE cat
        glob1 == TrimFront(glob, now - HOUR_MS)
    IN  IF hasCat /\ Len(timestamps) >= limits.categoryCooldownCount
        THEN [limited |-> TRUE, cat |-> cat1, glob |-> glob]
        ELSE [limited |-> Len(glob1) >= limits.globalMaxPerHour,
              cat |-> cat1, glob |-> glob1]

\* mutation of recordFiring: the firing is recorded in the category deque only
recordFiringCategoryOnly(action, now, cat, glob) ==
    [cat |-> IF action.type \in DOMAIN cat
             THEN [cat EXCEPT ![action.type] = Append(@, now)]
             ELSE [t \in DOMAIN cat \cup {action.type} |->
                      IF t = action.type THEN <<now>> ELSE cat[t]],
     glob |-> glob]

\* recordFiring(action, now)
recordFiring(action, now, cat, glob) ==
    [cat |-> IF action.type \in DOMAIN cat
             THEN [cat EXCEPT ![action.type] = Append(@, now)]
             ELSE [t \in DOMAIN cat \cup {action.type} |->
                      IF t = action.type THEN <<now>> ELSE cat[t]],
     glob |-> Append(glob, now)]

(***************************************************************************)
(* Evaluation (rule_engine.cpp 211-349)                                    *)
(***************************************************************************)
\* mutation of ConfidenceLoop: the loop is left once the product has dropped
\* below 0.5
RECURSIVE ConfidenceLoopEager(_, _, _, _, _, _)
ConfidenceLoopEager(conditions, i, confidence, ctx, events, now) ==
    IF i > Len(conditions) \/ RLt(confidence, RHalf) THEN confidence
    ELSE ConfidenceLoopEager(conditions, i + 1,
                             RMul(confidence,
                                  matchCondition(conditions[i], ctx, events, now)),
                             ctx, events, now)

\* the product of the condition scores; the loop is left once the product
\* has dropped below 0.01
RECURSIVE ConfidenceLoop(_, _, _, _, _, _)
ConfidenceLoop(conditions, i, confidence, ctx, events, now) ==
    IF i > Len(conditions) \/ RLt(confidence, RHundredth) THEN confidence
    ELSE ConfidenceLoop(conditions, i + 1,
                        RMul(confidence, matchCondition(conditions[i], ctx, events, now)),
                        ctx, events, now)

\* mutation of InCooldown: no rule is ever in cooldown
NoCooldown(rule, now, lastFired) == FALSE

\* per-rule cooldown: the rule is skipped
InCooldown(rule, now, lastFired) ==
    /\ rule.id \in DOMAIN lastFired
    /\ rule.cooldownMs > 0
    /\ now - lastFired[rule.id] < rule.cooldownMs

\* one pass of the loop over the candidate rules: rl is what isRateLimited
\* answered and left behind, st is [results, cat, glob]
LeafStep(rule, inCooldown, rl, confidence, st) ==
    IF ~rule.enabled THEN st
    ELSE IF inCooldown THEN st
    ELSE IF rl.limited THEN [st EXCEPT !.cat = rl.cat, !.glob = rl.glob]
    ELSE [results |-> IF RLt(RTenth, confidence)
                      THEN Append(st.results,
                                  [ruleId |-> rule.id, confidence |-> confidence,
                                   action |-> rule.action])
                      ELSE st.results,
          cat |-> rl.cat, glob |-> rl.glob]

\* the loop over the candidate rules of a leaf (and of the linear path)
RECURSIVE LeafLoop(_, _, _, _, _, _, _, _)
LeafLoop(rules, indices, ctx, events, now, lastFired, limits, st) ==
    IF indices = <<>> THEN st
    ELSE LeafLoop(rules, Tail(indices), ctx, events, now, lastFired, limits,
                  LeafStep(rules[Head(indices) + 1],
                           InCooldown(rules[Head(indices) + 1], now, lastFired),
                           isRateLimited(rules[Head(indices) + 1].action, now,
                                         st.cat, st.glob, limits),
                           ConfidenceLoop(rules[Head(indices) + 1].conditions, 1, ROne,
                                          ctx, events, now),
                           st))

\* evaluateNode(nodeIdx, ctx, results)
RECURSIVE evaluateNode(_, _, _, _, _, _, _, _, _)
evaluateNode(rules, tree, nodeIdx, ctx, events, now, lastFired, limits, st) ==
    IF nodeIdx < 0 \/ nodeIdx >= Len(tree) THEN st
    ELSE
    LET node == tree[nodeIdx + 1]
        hits == IF node.splitKey \in DOMAIN ctx
                THEN {k \in 1..Len(node.branches) :
                         node.branches[k][1] = ctx[node.splitKey]}
                ELSE {}
    IN  IF node.splitKey = <<>>
        THEN LeafLoop(rules, node.ruleIndices, ctx, events, now, lastFired, limits, st)
        ELSE IF hits # {}
        THEN evaluateNode(rules, tree,
                          node.branches[CHOOSE k \in hits : \A m \in hits : k <= m][2],
                          ctx, events, now, lastFired, limits, st)
        ELSE IF node.defaultChild >= 0
        THEN evaluateNode(rules, tree, node.defaultChild, ctx, events, now, lastFired,
                          limits, st)
        ELSE st

\* mutation of Dedup: every result is kept
DedupKeepAll(results, deduped) == deduped \o results

\* the deduplication loop: one result per ruleId, the higher confidence kept
RECURSIVE Dedup(_, _)
Dedup(results, deduped) ==
    IF results = <<>> THEN deduped
    ELSE
    LET r == Head(results)
        seen == {k \in 1..Len(deduped) : deduped[k].ruleId = r.ruleId}
        at == CHOOSE k \in seen : TRUE
    IN  IF seen = {} THEN Dedup(Tail(results), Append(deduped, r))
        ELSE IF RLt(deduped[at].confidence, r.confidence)
        THEN Dedup(Tail(results), [deduped EXCEPT ![at] = r])
        ELSE Dedup(Tail(results), deduped)

\* priorityMap of evaluate: the priority of the last rule with the id; 1.0
\* for an id that no rule has
PriorityOf(rules, ruleId) ==
    LET having == {i \in 1..Len(rules) : rules[i].id = ruleId}
    IN  IF having = {} THEN 1
        ELSE rules[CHOOSE i \in having : \A j \in having : j <= i].priority

Score(rules, r) == RMul(r.confidence, RInt(PriorityOf(rules, r.ruleId)))

\* mutation of sortByScore: the results are ordered by confidence alone
sortByConfidence(rules, results) ==
    LET n == Len(results)
        ok(p) == \A i, j \in 1..n :
                    i < j => ~RLt(results[p[i]].confidence, results[p[j]].confidence)
    IN  {[i \in 1..n |-> results[p[i]]] : p \in {q \in Permutations(1..n) : ok(q)}}

\* sortByScore: std::sort with the comparator score(a) > score(b).  The order
\* of results with equal scores is unspecified: every arrangement in which no
\* later result has a higher score is a possible outcome.
sortByScore(rules, results) ==
    LET n == Len(results)
        ok(p) == \A i, j \in 1..n :
                    i < j => ~RLt(Score(rules, results[p[i]]), Score(rules, results[p[j]]))
    IN  {[i \in 1..n |-> results[p[i]]] : p \in {q \in Permutations(1..n) : ok(q)}}

\* results.resize(maxResults) when there are more
Truncate(results, maxResults) ==
    IF Len(results) > maxResults THEN SubSeq(results, 1, maxResults) ELSE results

\* everything evaluate computes before ranking: the matches and the deques
\* as the rate limiter left them
Deduped(st) == [st EXCEPT !.results = Dedup(st.results, <<>>)]

Matches(rules, tree, ctx, events, now, lastFired, limits, cat, glob) ==
    IF tree = <<>>
    THEN LeafLoop(rules, [i \in 1..Len(rules) |-> i - 1], ctx, events, now, lastFired,
                  limits, [results |-> <<>>, cat |-> cat, glob |-> glob])
    ELSE Deduped(evaluateNode(rules, tree, 0, ctx, events, now, lastFired, limits,
                              [results |-> <<>>, cat |-> cat, glob |-> glob]))

(***************************************************************************)
(* Inputs explored: rules, rule lists, contexts, limits, events.           *)
(***************************************************************************)
Str(x) == <<x>>
KeyMotion == Str("motionState")
KeyBattery == Str("batteryLevel")
KeySequence == <<"sequence", ":", "geofence_enter", ",", "app_open">>
KeyEvent == <<"event", ":", "app_open">>
GeofenceEnter == Str("geofence_enter")
AppOpen == Str("app_open")

Cond(key, op, value) == [key |-> key, op |-> op, value |-> value]
MkRule(id, conditions, actionType, priority, cooldownMs) ==
    [id |-> id, conditions |-> conditions,
     action |-> [id |-> "act_" \o id, type |-> actionType],
     priority |-> priority, cooldownMs |-> cooldownMs, enabled |-> TRUE]

WalkingCond == Cond(KeyMotion, "eq", Str("walking"))
\* S1: eq condition and a cooldown
R1 == MkRule("R1", <<WalkingCond>>, "automation", 1, 2)
\* R1 redefined without cooldown
R1b == MkRule("R1", <<WalkingCond>>, "automation", 1, 0)
\* S2: soft numeric condition
R2 == MkRule("R2", <<Cond(KeyBattery, "lt", Str("20"))>>, "suggestion", 3, 0)
\* a second rule with the id R2 (loadRules takes any list)
R2b == MkRule("R2", <<WalkingCond>>, "suggestion", 1, 0)
\* S4: temporal sequence
R4 == MkRule("R4", <<Cond(KeySequence, "within", Str("5000"))>>, "notification", 1, 0)
\* S5: three rules of type suggestion that match the same contexts
R5a == MkRule("R5a", <<WalkingCond>>, "suggestion", 1, 0)
R5b == MkRule("R5b", <<WalkingCond>>, "suggestion", 1, 0)
R5c == MkRule("R5c", <<WalkingCond>>, "suggestion", 1, 0)
S5Rules == <<R5a, R5b, R5c>>
\* the rules of S5 with other priorities and cooldowns
S5Rule(id, priority, cooldownMs) ==
    MkRule(id, <<WalkingCond>>, "suggestion", priority, cooldownMs)
S5Variant(priorities, cooldownMs) ==
    <<S5Rule("R5a", priorities[1], cooldownMs), S5Rule("R5b", priorities[2], cooldownMs),
      S5Rule("R5c", priorities[3], cooldownMs)>>
S5RuleLists == {S5Variant(pr, c) : pr \in {<<1, 1, 1>>, <<3, 2, 1>>}, c \in {0, 2}}

RuleLists == {<<R1, R2>>}
AddedRules == {R1b, R5a}
RemovedIds == {"R5a"}

Ctx(motion, battery) ==
    [k \in (IF motion = "" THEN {} ELSE {KeyMotion})
           \cup (IF battery = "" THEN {} ELSE {KeyBattery}) |->
        IF k = KeyMotion THEN Str(motion) ELSE Str(battery)]
CtxEmpty == Ctx("", "")
CtxWalking == Ctx("walking", "")
CtxWalkingHigh == Ctx("walking", "22")
CtxLow == Ctx("", "20.5")
CtxWalkingLow == Ctx("walking", "20.5")
Contexts == {CtxWalking, CtxWalkingHigh}
MaxResultsChoices == {1, 5}

DefaultLimits == [categoryCooldownCount |-> 3, categoryCooldownWindowMs |-> 600000,
                  globalMaxPerHour |-> 10]
S5Limits == [DefaultLimits EXCEPT !.globalMaxPerHour = 2]
GlobalTight == [DefaultLimits EXCEPT !.globalMaxPerHour = 1]
CategoryTight == [DefaultLimits EXCEPT !.categoryCooldownCount = 1,
                                       !.categoryCooldownWindowMs = 1]
LimitChoices == {GlobalTight, CategoryTight}

\* the iteration orders of the build's unordered_map that are explored
HashOrder == <<KeyMotion, KeyBattery, KeySequence, KeyEvent, Str("walking"), Str("20")>>

(***************************************************************************)
(* State.                                                                  *)
(***************************************************************************)
VARIABLES
    clock,             \* std::chrono::steady_clock, in ms
    hashOrd,           \* iteration order of the build's unordered_map
    rules_,            \* RuleEngine::rules_
    tree_,             \* RuleEngine::tree_
    lastFired_,        \* RuleEngine::lastFired_: ruleId -> timestamp
    events_,           \* EventBuffer::events_
    rateLimits_,       \* RuleEngine::rateLimits_
    categoryFirings_,  \* RuleEngine::categoryFirings_: type -> deque
    globalFirings_,    \* RuleEngine::globalFirings_
    arms_,             \* MAB::arms_ of RuleEngine::mab_: actionId -> [pulls, totalReward]
    ret,               \* the call of the last step: its arguments, what it
                       \* returned and, for a rule operation, the rule array
                       \* it found
    firedLog,          \* history: every firing recorded so far
    changed,           \* history: ids whose rules changed since they last fired
    limitsTouched,     \* history: setLimits was called after a firing
    evalLog,           \* history: the evaluate calls of a scenario run
    ordered,           \* history: no push so far broke the timestamp order
    epsilon_,          \* MAB::epsilon_
    linArms_,          \* LinUCB::arms_ of RuleEngine::linucb_: actionId -> [A, b]
    committed,         \* history: arms_ as the completed updates left it
    twin,              \* a second engine that is given the same rules, clock and
                       \* calls: its rateLimits_, lastFired_, categoryFirings_,
                       \* globalFirings_ and the firings it recorded
    pc,                \* thread -> where the thread is in the call it makes
    local,             \* thread -> arguments and locals of that call
    engineMu,          \* RuleEngine::mu_: the thread that holds it, or Free
    bufferMu,          \* EventBuffer::mu_
    mabMu              \* MAB::mu_

vars == <<clock, hashOrd, rules_, tree_, lastFired_, events_, rateLimits_,
          categoryFirings_, globalFirings_, arms_, ret, firedLog, changed,
          limitsTouched, evalLog, ordered, epsilon_, linArms_, committed, twin, pc, local,
          engineMu, bufferMu, mabMu>>

\* the state of the threads and of the three mutexes
threadVars == <<pc, local, engineMu, bufferMu, mabMu>>

NoRet == [op |-> "none"]
\* the threads that share the engine
Threads == {"t1", "t2"}
\* no thread holds the mutex
Free == "free"
\* the thread is in no call
NoCall == [op |-> "none"]
EmptyMap == [x \in {} |-> 0]

\* the engine as constructed, with a bandit built with epsilon, in a build
\* whose unordered_map iterates in the given order
InitOf(epsilon, order) ==
    /\ clock = BootTime
    /\ hashOrd = order
    /\ rules_ = <<>>
    /\ tree_ = <<>>
    /\ lastFired_ = EmptyMap
    /\ events_ = <<>>
    /\ rateLimits_ = DefaultLimits
    /\ categoryFirings_ = EmptyMap
    /\ globalFirings_ = <<>>
    /\ arms_ = EmptyMap
    /\ ret = NoRet
    /\ firedLog = <<>>
    /\ changed = {}
    /\ limitsTouched = FALSE
    /\ evalLog = <<>>
    /\ ordered = TRUE
    /\ epsilon_ = epsilon
    /\ linArms_ = EmptyMap
    /\ committed = EmptyMap
    /\ twin = [limits |-> DefaultLimits, lastFired |-> EmptyMap, cat |-> EmptyMap,
               glob |-> <<>>, firedLog |-> <<>>]
    /\ pc = [t \in Threads |-> "idle"]
    /\ local = [t \in Threads |-> NoCall]
    /\ engineMu = Free
    /\ bufferMu = Free
    /\ mabMu = Free

InitWith(epsilon) == InitOf(epsilon, HashOrder)

\* RuleEngine::RuleEngine(): mab_(0.1), eventBuffer_(100)
Init == InitWith(RTenth)

(***************************************************************************)
(* Operations.                                                             *)
(***************************************************************************)
RulesWithId(rules, id) == {rules[i] : i \in {i \in 1..Len(rules) : rules[i].id = id}}
IdsOf(rules) == {rules[i].id : i \in 1..Len(rules)}
\* ids whose rules differ between two rule arrays
ChangedIds(old, new) ==
    {id \in IdsOf(old) \cup IdsOf(new) : RulesWithId(old, id) # RulesWithId(new, id)}

\* mutation of RuleFrame: a rule operation forgets the last firings
RuleFrameForgetful ==
    /\ lastFired_' = EmptyMap
    /\ UNCHANGED <<clock, hashOrd, events_, rateLimits_, categoryFirings_,
                   globalFirings_, arms_, epsilon_, linArms_, committed, twin,
                   threadVars, firedLog, limitsTouched, evalLog, ordered>>

\* what loadRules, addRule and removeRule leave alone
RuleFrame == UNCHANGED <<clock, hashOrd, lastFired_, events_, rateLimits_,
                         categoryFirings_, globalFirings_, arms_, epsilon_, linArms_, committed, twin,
                         threadVars, firedLog,
                         limitsTouched, evalLog, ordered>>

\* mutation of LoadRules: the tree is compiled before the rules are replaced
LoadRulesStale(rules) ==
    /\ rules_' = rules
    /\ tree_' = compileTree(rules_, hashOrd)
    /\ ret' = [op |-> "loadRules", rules |-> rules, before |-> rules_, ok |-> TRUE]
    /\ changed' = (changed \cup ChangedIds(rules_, rules)) \cap DOMAIN lastFired_
    /\ UNCHANGED <<clock, hashOrd, lastFired_, events_, rateLimits_, categoryFirings_,
                   globalFirings_, arms_, epsilon_, linArms_, committed, twin,
                   threadVars, firedLog, limitsTouched, evalLog, ordered>>

\* bool RuleEngine::loadRules(rules)
LoadRules(rules) ==
    /\ rules_' = rules
    /\ tree_' = compileTree(rules, hashOrd)
    /\ ret' = [op |-> "loadRules", rules |-> rules, before |-> rules_, ok |-> TRUE]
    /\ changed' = (changed \cup ChangedIds(rules_, rules)) \cap DOMAIN lastFired_
    /\ RuleFrame

\* the rule array after addRule(rule)
AddedTo(rules, rule) ==
    LET same == {i \in 1..Len(rules) : rules[i].id = rule.id}
    IN  IF same # {}
        THEN [rules EXCEPT ![CHOOSE i \in same : \A j \in same : i <= j] = rule]
        ELSE Append(rules, rule)

\* bool RuleEngine::addRule(rule)
AddRule(rule) ==
    /\ rule.id \in IdsOf(rules_) \/ Len(rules_) < MaxRules
    /\ rules_' = AddedTo(rules_, rule)
    /\ tree_' = compileTree(rules_', hashOrd)
    /\ ret' = [op |-> "addRule", rule |-> rule, before |-> rules_, ok |-> TRUE]
    /\ changed' = (changed \cup ChangedIds(rules_, rules_')) \cap DOMAIN lastFired_
    /\ RuleFrame

\* mutation of Removed: nothing is removed
RemovedNothing(rules, ruleId) == rules

\* the rule array after std::remove_if and erase: the rules with another id,
\* in order
Removed(rules, ruleId) == SelectSeq(rules, LAMBDA r : r.id # ruleId)

\* bool RuleEngine::removeRule(ruleId)
RemoveRule(ruleId) ==
    \E kept \in {Removed(rules_, ruleId)} :
        /\ rules_' = kept
        /\ tree_' = IF kept = rules_ THEN tree_ ELSE compileTree(kept, hashOrd)
        /\ ret' = [op |-> "removeRule", ruleId |-> ruleId, before |-> rules_,
                   ok |-> kept # rules_]
        /\ changed' = (changed \cup ChangedIds(rules_, kept)) \cap DOMAIN lastFired_
        /\ RuleFrame

\* void RuleEngine::setLimits(limits)
SetLimits(limits) ==
    /\ rateLimits_' = limits
    /\ ret' = NoRet
    /\ limitsTouched' = (limitsTouched \/ firedLog # <<>>)
    /\ UNCHANGED <<clock, hashOrd, rules_, tree_, lastFired_, events_, categoryFirings_,
                   globalFirings_, arms_, epsilon_, linArms_, committed, twin,
                   threadVars, firedLog, changed, evalLog, ordered>>

\* what EventBuffer::push(event) writes under the buffer mutex
PushWrites(event) ==
    /\ events_' = push(events_, event, clock)
    /\ ret' = [op |-> "pushEvent", now |-> clock, event |-> event,
               dropped |-> Len(events_) + 1 - Len(events_'),
               expired |-> Len(events_) - Len(expireOld(events_, clock))]
    /\ ordered' = (ordered /\ (events_ = <<>>
                                 \/ events_[Len(events_)].timestampMs <= event.timestampMs))
    /\ UNCHANGED <<clock, hashOrd, rules_, tree_, lastFired_, rateLimits_,
                   categoryFirings_, globalFirings_, arms_, epsilon_, linArms_, committed, twin,
                   firedLog, changed, limitsTouched, evalLog>>

\* void RuleEngine::pushEvent(event): EventBuffer::push, as one step
PushEvent(event) == PushWrites(event) /\ UNCHANGED threadVars

\* what a query of the event buffer leaves alone
QueryFrame == UNCHANGED <<clock, hashOrd, rules_, tree_, lastFired_, events_, rateLimits_,
                          categoryFirings_, globalFirings_, arms_, epsilon_, linArms_, committed, twin,
                          threadVars, firedLog, changed,
                          limitsTouched, evalLog, ordered>>

\* bool EventBuffer::hasRecent(eventType, withinMs) const
HasRecent(eventType, withinMs) ==
    /\ ret' = [op |-> "hasRecent", now |-> clock, eventType |-> eventType,
               withinMs |-> withinMs,
               value |-> hasRecent(events_, clock, eventType, withinMs)]
    /\ QueryFrame

\* bool EventBuffer::hasSequence(eventA, eventB, withinMs) const
HasSequence(eventA, eventB, withinMs) ==
    /\ ret' = [op |-> "hasSequence", now |-> clock, eventA |-> eventA,
               eventB |-> eventB, withinMs |-> withinMs,
               value |-> hasSequence(events_, clock, eventA, eventB, withinMs)]
    /\ QueryFrame

\* double RuleEngine::matchCondition(cond, ctx)
MatchCondition(cond, ctx) ==
    /\ ret' = [op |-> "matchCondition", now |-> clock, cond |-> cond, ctx |-> ctx,
               value |-> matchCondition(cond, ctx, events_, clock)]
    /\ QueryFrame

\* the clock may advance by step
CanTick(step) ==
    IF step = MAX_AGE_MS THEN (clock - BootTime) \div MAX_AGE_MS < MaxDayTicks
    ELSE IF step = HOUR_MS THEN (clock - BootTime) \div HOUR_MS < MaxHourTicks
    ELSE ((clock - BootTime) % HOUR_MS) + step <= MaxSmallTicks

Tick(step) ==
    /\ CanTick(step)
    /\ clock' = clock + step
    /\ ret' = NoRet
    /\ UNCHANGED <<hashOrd, rules_, tree_, lastFired_, events_, rateLimits_,
                   categoryFirings_, globalFirings_, arms_, epsilon_, linArms_, committed, twin,
                   threadVars, firedLog, changed,
                   limitsTouched, evalLog, ordered>>

\* std::vector<MatchResult> RuleEngine::evaluate(ctx, maxResults); the clock
\* advances by delay between the read of now and the read of fireNow.
\* logged: the call is appended to evalLog.
EvaluateWrites(ctx, maxResults, delay, logged) ==
    \E now \in {clock}, fireNow \in {clock + delay} :
    \E m \in {Matches(rules_, tree_, ctx, events_, now, lastFired_, rateLimits_,
                      categoryFirings_, globalFirings_)} :
    \E sorted \in sortByScore(rules_, m.results) :
    \E results \in {Truncate(sorted, maxResults)} :
    \E call \in {[op |-> "evaluate", now |-> now, ctx |-> ctx,
                   maxResults |-> maxResults, results |-> results]} :
        /\ ret' = call
        /\ evalLog' = IF logged THEN Append(evalLog, call) ELSE evalLog
        /\ IF results # <<>>
           THEN /\ Len(firedLog) < MaxFirings
                /\ delay = 0 \/ CanTick(delay)
                /\ clock' = fireNow
                /\ lastFired_' =
                      [id \in DOMAIN lastFired_ \cup {results[1].ruleId} |->
                          IF id = results[1].ruleId THEN fireNow ELSE lastFired_[id]]
                /\ \E fired \in {recordFiring(results[1].action, fireNow, m.cat, m.glob)} :
                      /\ categoryFirings_' = fired.cat
                      /\ globalFirings_' = fired.glob
                /\ firedLog' = Append(firedLog,
                                      [ts |-> fireNow,
                                       ruleId |-> results[1].ruleId,
                                       type |-> results[1].action.type])
                /\ changed' = changed \ {results[1].ruleId}
           ELSE /\ delay = 0
                /\ categoryFirings_' = m.cat
                /\ globalFirings_' = m.glob
                /\ UNCHANGED <<clock, lastFired_, firedLog, changed>>
        /\ UNCHANGED <<hashOrd, rules_, tree_, events_, rateLimits_, arms_, epsilon_, linArms_,
                       committed, limitsTouched, ordered>>

\* evaluate as one step: no other thread runs during the call
EvaluateEngine(ctx, maxResults, delay, logged) ==
    EvaluateWrites(ctx, maxResults, delay, logged) /\ UNCHANGED threadVars

\* evaluate on the engine; the second engine is not called
EvaluateCall(ctx, maxResults, delay, logged) ==
    EvaluateEngine(ctx, maxResults, delay, logged) /\ UNCHANGED twin

Evaluate(ctx, maxResults, delay) == EvaluateCall(ctx, maxResults, delay, FALSE)

\* evaluate(ctx, maxResults) called at the same clock reading on the engine
\* and on the second engine, which holds the same rules, tree and events
TwinEvaluate(ctx, maxResults) ==
    /\ EvaluateEngine(ctx, maxResults, 0, FALSE)
    /\ \E m \in {Matches(rules_, tree_, ctx, events_, clock, twin.lastFired, twin.limits,
                          twin.cat, twin.glob)} :
       \E sorted \in sortByScore(rules_, m.results) :
       \E results \in {Truncate(sorted, maxResults)} :
          IF results # <<>>
          THEN /\ Len(twin.firedLog) < MaxFirings
               /\ \E fired \in {recordFiring(results[1].action, clock, m.cat, m.glob)} :
                     twin' = [limits |-> twin.limits,
                              lastFired |->
                                  [id \in DOMAIN twin.lastFired \cup {results[1].ruleId} |->
                                      IF id = results[1].ruleId THEN clock
                                      ELSE twin.lastFired[id]],
                              cat |-> fired.cat,
                              glob |-> fired.glob,
                              firedLog |-> Append(twin.firedLog,
                                                  [ts |-> clock,
                                                   ruleId |-> results[1].ruleId,
                                                   type |-> results[1].action.type])]
          ELSE twin' = [twin EXCEPT !.cat = m.cat, !.glob = m.glob]

\* setLimits on both engines before either has fired: the same category
\* limits, globalMaxPerHour n1 on the engine and n2 on the second engine
TwinSetLimits(limits, n1, n2) ==
    /\ firedLog = <<>> /\ twin.firedLog = <<>>
    /\ rateLimits_' = [limits EXCEPT !.globalMaxPerHour = n1]
    /\ twin' = [twin EXCEPT !.limits = [limits EXCEPT !.globalMaxPerHour = n2]]
    /\ ret' = NoRet
    /\ UNCHANGED <<clock, hashOrd, rules_, tree_, lastFired_, events_, categoryFirings_,
                   globalFirings_, arms_, epsilon_, linArms_, committed, threadVars, firedLog,
                   changed, limitsTouched, evalLog, ordered>>

\* the statistics of an arm; operator[] creates an unknown arm zeroed
ArmOf(arms, actionId) ==
    IF actionId \in DOMAIN arms THEN arms[actionId]
    ELSE [pulls |-> 0, totalReward |-> RZero]

\* mutation of Updated: the reward replaces the total
UpdatedOverwriting(arms, actionId, reward) ==
    [a \in DOMAIN arms \cup {actionId} |->
        IF a = actionId
        THEN [pulls |-> ArmOf(arms, a).pulls + 1, totalReward |-> reward]
        ELSE arms[a]]

\* arms_ after arm.pulls++ and arm.totalReward += reward on arms_[actionId]
Updated(arms, actionId, reward) ==
    [a \in DOMAIN arms \cup {actionId} |->
        IF a = actionId
        THEN [pulls |-> ArmOf(arms, a).pulls + 1,
              totalReward |-> RAdd(ArmOf(arms, a).totalReward, reward)]
        ELSE arms[a]]

\* void MAB::update(actionId, reward), reached through RuleEngine::mab()
MabUpdate(actionId, reward) ==
    /\ ArmOf(arms_, actionId).pulls < MaxPulls
    /\ arms_' = Updated(arms_, actionId, reward)
    /\ committed' = arms_'
    /\ ret' = [op |-> "update", actionId |-> actionId, reward |-> reward]
    /\ UNCHANGED <<clock, hashOrd, rules_, tree_, lastFired_, events_, rateLimits_,
                   categoryFirings_, globalFirings_, firedLog, changed, limitsTouched,
                   evalLog, ordered, epsilon_, linArms_, twin, threadVars>>

\* ArmStats::avgReward()
avgReward(arm) ==
    IF arm.pulls > 0 THEN RDiv(arm.totalReward, RInt(arm.pulls)) ELSE RZero

\* the average select compares for candidate actionId: 1.0 for an arm that
\* is unknown or was never pulled
SelectAvg(arms, actionId) ==
    IF actionId \notin DOMAIN arms \/ arms[actionId].pulls = 0 THEN ROne
    ELSE avgReward(arms[actionId])

\* the exploit loop of select over the candidates i, i + 1, ...
RECURSIVE ExploitLoop(_, _, _, _, _)
ExploitLoop(arms, actionIds, i, bestIdx, bestAvg) ==
    IF i >= Len(actionIds) THEN bestIdx
    ELSE IF RLt(bestAvg, SelectAvg(arms, actionIds[i + 1]))
    THEN ExploitLoop(arms, actionIds, i + 1, i, SelectAvg(arms, actionIds[i + 1]))
    ELSE ExploitLoop(arms, actionIds, i + 1, bestIdx, bestAvg)

\* mutation of SelectOutcomes: an empty candidate list yields index 0
SelectOutcomesNoSentinel(arms, epsilon, actionIds) ==
    {[index |-> ExploitLoop(arms, actionIds, 0, 0, RInt(BEST_AVG_START)),
      explored |-> FALSE]}

\* what select may return: -1 for no candidates; any index when the draw
\* dist(gen) from [0, 1) is below epsilon, which some draw is exactly when
\* epsilon > 0; the exploit index otherwise, which happens exactly when
\* epsilon < 1
SelectOutcomes(arms, epsilon, actionIds) ==
    IF actionIds = <<>> THEN {[index |-> -1, explored |-> FALSE]}
    ELSE {[index |-> i, explored |-> TRUE] :
             i \in IF RLt(RZero, epsilon) THEN 0..(Len(actionIds) - 1) ELSE {}}
         \cup {[index |-> ExploitLoop(arms, actionIds, 0, 0, RInt(BEST_AVG_START)),
                 explored |-> FALSE] : x \in IF RLt(epsilon, ROne) THEN {0} ELSE {}}

\* what the bandit operations leave alone
MabFrame == UNCHANGED <<clock, hashOrd, rules_, tree_, lastFired_, events_, rateLimits_,
                        categoryFirings_, globalFirings_, firedLog, changed,
                        limitsTouched, evalLog, ordered, epsilon_, linArms_, twin, threadVars>>

\* int MAB::select(actionIds)
MabSelect(actionIds) ==
    \E out \in SelectOutcomes(arms_, epsilon_, actionIds) :
        /\ ret' = [op |-> "select", actionIds |-> actionIds, index |-> out.index,
                   explored |-> out.explored]
        /\ UNCHANGED <<arms_, committed>>
        /\ MabFrame

\* void MAB::loadStats(stats)
MabLoadStats(stats) ==
    /\ arms_' = stats
    /\ committed' = stats
    /\ ret' = [op |-> "loadStats", stats |-> stats]
    /\ MabFrame

(***************************************************************************)
(* The engine: every operation, in any order.                              *)
(***************************************************************************)
Next ==
    \/ \E rules \in RuleLists : LoadRules(rules)
    \/ \E rule \in AddedRules : AddRule(rule)
    \/ \E ruleId \in RemovedIds : RemoveRule(ruleId)
    \/ \E limits \in LimitChoices : SetLimits(limits)
    \/ \E ctx \in Contexts, maxResults \in MaxResultsChoices, delay \in {0, 1} :
          Evaluate(ctx, maxResults, delay)
    \/ \E step \in {1, HOUR_MS} : Tick(step)

Spec == Init /\ [][Next]_vars

\* the engine with callers that also ask for no result at all
NextQuiet ==
    \/ Next
    \/ \E ctx \in Contexts : Evaluate(ctx, 0, 0)

SpecQuiet == Init /\ [][NextQuiet]_vars

(***************************************************************************)
(* Scenario S5: three rules and the limits are installed, then evaluate is *)
(* called at BootTime, BootTime + 1 and BootTime + 2; evalLog keeps the    *)
(* three calls.                                                           *)
(***************************************************************************)
NextS5 ==
    \/ \E rules \in S5RuleLists : rules_ = <<>> /\ LoadRules(rules)
    \/ evalLog = <<>> /\ rateLimits_ # S5Limits /\ SetLimits(S5Limits)
    \/ \E ctx \in Contexts, maxResults \in MaxResultsChoices, delay \in {0, 1} :
          /\ rules_ # <<>> /\ rateLimits_ = S5Limits
          /\ Len(evalLog) < 3 /\ clock = BootTime + Len(evalLog)
          /\ EvaluateCall(ctx, maxResults, delay, TRUE)
    \/ clock < BootTime + Len(evalLog) /\ Tick(1)

SpecS5 == Init /\ [][NextS5]_vars

(***************************************************************************)
(* The event buffer: pushes with fresh, late and expired timestamps, the   *)
(* two queries, the temporal conditions, and the clock moving by 1 ms and  *)
(* by 24 h.                                                               *)
(***************************************************************************)
EventTypes == {GeofenceEnter, AppOpen}
Windows == {1, 5000}
RecentCond == Cond(KeyEvent, "recent", Str("5000"))
WithinCond == Cond(KeySequence, "within", Str("5000"))
\* the timestamps a caller may hand to pushEvent at time now
PushTimestamps(now) == {now, now - 1, now - MAX_AGE_MS - 1}

NextBuffer ==
    \/ \E eventType \in EventTypes, ts \in PushTimestamps(clock) :
          PushEvent([timestampMs |-> ts, eventType |-> eventType])
    \/ \E eventType \in EventTypes, withinMs \in Windows : HasRecent(eventType, withinMs)
    \/ \E eventA \in EventTypes, withinMs \in Windows :
          HasSequence(eventA, AppOpen, withinMs)
    \/ \E cond \in {RecentCond, WithinCond} : MatchCondition(cond, CtxEmpty)
    \/ \E step \in {1, MAX_AGE_MS} : Tick(step)

SpecBuffer == Init /\ [][NextBuffer]_vars

(***************************************************************************)
(* Ranking: rule lists with distinct scores, with equal scores and with a  *)
(* repeated id, evaluated for four contexts and result sizes 0, 1, 2, 5.   *)
(***************************************************************************)
RankLists == {<<R1, R2>>, <<R2, R2b>>, <<R2b, R2>>, S5Rules, S5Variant(<<3, 2, 1>>, 0)}
RankContexts == {CtxWalking, CtxWalkingHigh, CtxLow, CtxWalkingLow}
RankSizes == {0, 1, 2, 5}

NextRank ==
    \/ \E rules \in RankLists : LoadRules(rules)
    \/ \E ctx \in RankContexts, maxResults \in RankSizes : Evaluate(ctx, maxResults, 0)
    \/ Tick(1)

SpecRank == Init /\ [][NextRank]_vars

(***************************************************************************)
(* Rule management: lists with three rules, with a disabled rule and with  *)
(* a repeated id are loaded, rules are added, replaced, removed and added  *)
(* again, between evaluations, one pushed event and one bandit update.     *)
(***************************************************************************)
Disabled(rule) == [rule EXCEPT !.enabled = FALSE]
ManageLists == {<<R1, R2, R5a>>, <<R1, R2, R5a, Disabled(R5b)>>, <<R2, R2b>>}
ManageAdded == {R1, Disabled(R5a)}
ManageRemoved == {"R1", "R9"}
ManageContexts == {CtxWalking}

NextManage ==
    \/ \E rules \in ManageLists : LoadRules(rules)
    \/ \E rule \in ManageAdded : AddRule(rule)
    \/ \E ruleId \in ManageRemoved : RemoveRule(ruleId)
    \/ \E ctx \in ManageContexts : Evaluate(ctx, 5, 0)
    \/ events_ = <<>> /\ PushEvent([timestampMs |-> clock, eventType |-> AppOpen])
    \/ arms_ = EmptyMap /\ MabUpdate("act_R1", ROne)
    \/ Tick(1)

SpecManage == Init /\ [][NextManage]_vars

(***************************************************************************)
(* The soft matcher: conditions of every op, a mistyped op included, over  *)
(* numeric, textual and list values, scored against contexts that hold the *)
(* key with a numeric or textual value or lack it; rules of one condition  *)
(* are loaded and evaluated.                                               *)
(***************************************************************************)
KeyHour == Str("hour")
RangeValue == <<"9", ",", "17">>
ListValue == <<"walking", ",", "running">>
MatchOps == {"eq", "neq", "in", "gt", "gte", "lt", "lte", "range", "contains"}
MatchValues == {Str("20"), Str("-20"), RangeValue, Str("walking")}
MatchActuals == {Str("12"), Str("17.5"), Str("20"), Str("20.5"), Str("22"),
                 Str("-20.5"), Str("-22"), Str("walking")}
MatchConds ==
    {Cond(KeyBattery, op, value) : op \in MatchOps, value \in MatchValues}
    \cup {Cond(KeyHour, "range", RangeValue), Cond(KeyMotion, "contains", Str("walking")),
          Cond(KeyMotion, "in", ListValue)}
MatchContexts ==
    {CtxEmpty}
    \cup {[k \in {KeyBattery} |-> actual] : actual \in MatchActuals}
    \cup {[k \in {KeyHour} |-> actual] : actual \in {Str("12"), Str("17.5"), Str("20")}}
    \cup {[k \in {KeyMotion} |-> Str("walking")]}
\* the rule of one condition
MatchRule(cond) == MkRule("RM", <<cond>>, "suggestion", 1, 0)
MatchRuleConds ==
    {Cond(KeyBattery, "lt", Str("20")), Cond(KeyHour, "range", RangeValue),
     Cond(KeyMotion, "contains", Str("walking")), Cond(KeyMotion, "eq", Str("walking")),
     Cond(KeyMotion, "neq", Str("walking")), Cond(KeyMotion, "in", ListValue)}
MatchRuleLists == {<<MatchRule(cond)>> : cond \in MatchRuleConds}

NextMatch ==
    \/ \E cond \in MatchConds, ctx \in MatchContexts : MatchCondition(cond, ctx)
    \/ \E rules \in MatchRuleLists : LoadRules(rules)
    \/ \E ctx \in MatchContexts : Evaluate(ctx, 5, 0)

SpecMatch == Init /\ [][NextMatch]_vars

(***************************************************************************)
(* Scoring: conditions of every op over values that are numbers, IEEE      *)
(* specials, lists, ranges (one reversed), text and the empty string,      *)
(* scored against contexts with numeric, special and textual actuals;      *)
(* before any rule is loaded; rules of two to five conditions are loaded   *)
(* and evaluated, with and without an event in the buffer.                 *)
(***************************************************************************)
ReversedRange == <<"17", ",", "9">>
ScoreOps == MatchOps \cup {"recent", "within"}
ScoreValues == {Str("20"), Str("inf"), Str("-inf"), Str("nan"), RangeValue,
                ReversedRange, Str("walking"), <<>>}
ScoreActuals == {Str("12"), Str("20.5"), Str("21.5"), Str("22"), Str("-22"),
                 Str("inf"), Str("-inf"), Str("nan"), Str("walking"), <<>>}
ScoreConds ==
    {Cond(KeyBattery, op, value) : op \in ScoreOps, value \in ScoreValues}
    \cup {RecentCond, WithinCond, Cond(KeyEvent, "recent", Str("walking"))}
ScoreContexts ==
    {CtxEmpty} \cup {[k \in {KeyBattery} |-> actual] : actual \in ScoreActuals}
                \cup {CtxWalkingLow, Ctx("running", "21.5")}
LtCond == Cond(KeyBattery, "lt", Str("20"))
\* rules of several conditions: the product of the scores passes 0.1, ends
\* between 0.01 and 0.1, or drops below 0.01 before the last condition
RS1 == MkRule("RS1", <<LtCond, WalkingCond>>, "suggestion", 1, 0)
RS2 == MkRule("RS2", <<WalkingCond, LtCond>>, "automation", 2, 0)
RS3 == MkRule("RS3", <<LtCond, LtCond, LtCond, LtCond, WalkingCond>>, "notification", 1, 0)
RS4 == MkRule("RS4", <<RecentCond, LtCond, Cond(KeyHour, "gt", Str("9"))>>,
              "notification", 1, 0)
ScoreRuleLists == {<<RS1, RS2>>, <<RS3, RS4>>, <<RS1, RS3>>}

NextScore ==
    \/ \E cond \in ScoreConds, ctx \in ScoreContexts :
          rules_ = <<>> /\ MatchCondition(cond, ctx)
    \/ \E rules \in ScoreRuleLists : LoadRules(rules)
    \/ \E ctx \in ScoreContexts : Evaluate(ctx, 5, 0)
    \/ events_ = <<>> /\ PushEvent([timestampMs |-> clock, eventType |-> AppOpen])

SpecScore == Init /\ [][NextScore]_vars

(***************************************************************************)
(* The bandit: a MAB built with epsilon 0, 0.1 or 1; arms a and b are      *)
(* updated with the rewards of scenario S6, arms x and y once with rewards *)
(* at and below -1e9; statistics are loaded; select is called with no,     *)
(* one and two candidates, known and unknown.                              *)
(***************************************************************************)
BanditRewards ==
    [a \in {"a", "b", "x", "y"} |->
        CASE a = "a" -> {<<1, 5>>, <<9, 10>>, RInt(2)}
          [] a = "b" -> {<<9, 10>>}
          [] a = "x" -> {RInt(2 * BEST_AVG_START)}
          [] a = "y" -> {RInt(BEST_AVG_START)}]
\* arms x and y are updated once (the sums stay within TLC's integers)
BanditPulls == [a \in {"a", "b", "x", "y"} |-> IF a \in {"a", "b"} THEN MaxPulls ELSE 1]
BanditCandidates ==
    {<<>>, <<"a">>, <<"c">>, <<"a", "b">>, <<"b", "a">>, <<"a", "c">>, <<"x", "y">>,
     <<"y", "x">>}
BanditStats == {EmptyMap, [a \in {"a"} |-> [pulls |-> 0, totalReward |-> RZero]]}

\* MAB::MAB(epsilon)
InitBandit == \E epsilon \in {RZero, RTenth, ROne} : InitWith(epsilon)

NextBandit ==
    \/ \E a \in DOMAIN BanditRewards : \E reward \in BanditRewards[a] :
          ArmOf(arms_, a).pulls < BanditPulls[a] /\ MabUpdate(a, reward)
    \/ \E actionIds \in BanditCandidates : MabSelect(actionIds)
    \/ \E stats \in BanditStats : arms_ # stats /\ MabLoadStats(stats)

SpecBandit == InitBandit /\ [][NextBandit]_vars

(***************************************************************************)
(* The bridge's statistics snapshot (context_engine_napi.cpp 325-353).     *)
(* getStats writes one JSON member per arm, its numbers through an         *)
(* ostringstream: pulls as an integer, totalReward and avgReward as        *)
(* doubles in the stream's default notation of six significant digits.     *)
(* The object's text is modelled by the set of its members, the order of   *)
(* an unordered_map not being the program's choice.  loadStats reads its   *)
(* argument and hands MAB::loadStats a map it declares and never fills.    *)
(***************************************************************************)
\* the decimals the default notation keeps of a double between 0.1 and 1000
Decimals(r) ==
    IF RLt(r, ROne) /\ RLt(RInt(-1), r) THEN 6
    ELSE IF RLt(r, RInt(10)) /\ RLt(RInt(-10), r) THEN 5
    ELSE IF RLt(r, RInt(100)) /\ RLt(RInt(-100), r) THEN 4
    ELSE 3

RECURSIVE Pow10(_)
Pow10(k) == IF k = 0 THEN 1 ELSE 10 * Pow10(k - 1)

\* ss << double: the value the written text denotes.  A whole number of at
\* most six significant digits is written exactly (-2e+09 for -2e9); any
\* other value is rounded to six significant digits
Shown(r) ==
    IF r[2] <= 1 THEN r
    ELSE LET scale == Pow10(Decimals(r))
             mag == IF r[1] < 0 THEN -r[1] ELSE r[1]
             units == (2 * mag * scale + r[2]) \div (2 * r[2])
         IN  RNorm(IF r[1] < 0 THEN -units ELSE units, scale)

\* the text GetStats returns for the statistics stats
StatsJson(stats) ==
    {[id |-> a, pulls |-> stats[a].pulls, totalReward |-> Shown(stats[a].totalReward),
      avgReward |-> Shown(avgReward(stats[a]))] : a \in DOMAIN stats}

\* napi GetStats(env, info)
BridgeGetStats ==
    /\ ret' = [op |-> "bridgeGetStats", json |-> StatsJson(arms_)]
    /\ UNCHANGED <<arms_, committed>>
    /\ MabFrame

\* the map LoadStats passes on for the text json: declared empty, the
\* parse being a TODO (347-349)
ParsedStats(json) == EmptyMap

\* napi LoadStats(env, info) called with the arguments args
BridgeLoadStats(args) ==
    /\ IF Len(args) < 1
       THEN UNCHANGED <<arms_, committed>>
       ELSE /\ arms_' = ParsedStats(args[1])
            /\ committed' = arms_'
    /\ ret' = [op |-> "bridgeLoadStats", args |-> args, loaded |-> Len(args) >= 1]
    /\ MabFrame

\* the texts the host may hand to loadStats: none, the snapshot it was
\* just given, or a snapshot it kept
HostArgs ==
    {<<>>} \cup {<<StatsJson(stats)>> : stats \in BanditStats}
           \cup (IF ret.op = "bridgeGetStats" THEN {<<ret.json>>} ELSE {})

NextBridge ==
    \/ NextBandit
    \/ BridgeGetStats
    \/ \E args \in HostArgs : BridgeLoadStats(args)

SpecBridge == InitBandit /\ [][NextBridge]_vars

(***************************************************************************)
(* Threads.  A thread begins a call and then proceeds through it; a step   *)
(* is the taking of a mutex (std::lock_guard, which waits until the mutex  *)
(* is free) or one access of shared state.  pc is the place of a thread    *)
(* in its call, local the call and what it has read.                       *)
(***************************************************************************)
\* the state of the engine, the buffer and the bandit
dataVars == <<clock, hashOrd, rules_, tree_, lastFired_, events_, rateLimits_,
              categoryFirings_, globalFirings_, arms_, ret, firedLog, changed,
              limitsTouched, evalLog, ordered, epsilon_, linArms_, committed, twin>>

\* mutation of lockEngine: the call goes on without the mutex being free
lockEngineSkipped == TRUE
\* std::lock_guard<std::mutex> lock(mu_) in RuleEngine gets the mutex
lockEngine == engineMu = Free
\* std::lock_guard<std::mutex> lock(mu_) in EventBuffer gets the mutex
lockBuffer == bufferMu = Free
\* mutation of lockMab: the call goes on without the mutex being free
lockMabSkipped == TRUE
\* std::lock_guard<std::mutex> lock(mu_) in MAB gets the mutex
lockMab == mabMu = Free
\* mutation of unlock: the mutex stays with the thread
unlockForgotten(t) == t
\* the mutex after the lock_guard of thread t is destroyed
unlock(t) == Free

Goto(t, label) == pc' = [pc EXCEPT ![t] = label]
Return(t) == pc' = [pc EXCEPT ![t] = "idle"] /\ local' = [local EXCEPT ![t] = NoCall]
At(t, ops, label) == pc[t] = label /\ local[t].op \in ops
\* the calls of the operation that have begun and not returned
InProgress(op, actionId) ==
    Cardinality({t \in Threads :
                    /\ local[t].op = op
                    /\ op = "update" => local[t].actionId = actionId})

\* a thread enters a function
Begin(t, call) ==
    /\ pc[t] = "idle"
    /\ pc' = [pc EXCEPT ![t] = "called"]
    /\ local' = [local EXCEPT ![t] = call]
    /\ UNCHANGED <<dataVars, engineMu, bufferMu, mabMu>>

\* whether matchCondition(cond, ctx) calls hasRecent or hasSequence
CallsBuffer(cond) ==
    \/ /\ cond.op = "recent"
       /\ extractAfterPrefix(cond.key, <<"event", ":">>) # <<>>
       /\ StollOk(cond.value)
    \/ /\ cond.op = "within"
       /\ extractSequencePair(cond.key)[1] # <<>>
       /\ extractSequencePair(cond.key)[2] # <<>>
       /\ StollOk(cond.value)

\* the calls into the event buffer of the loop over the conditions of a rule
RECURSIVE ConditionCalls(_, _, _, _, _, _)
ConditionCalls(conditions, i, confidence, ctx, events, now) ==
    IF i > Len(conditions) \/ RLt(confidence, RHundredth) THEN 0
    ELSE (IF CallsBuffer(conditions[i]) THEN 1 ELSE 0)
         + ConditionCalls(conditions, i + 1,
                          RMul(confidence, matchCondition(conditions[i], ctx, events, now)),
                          ctx, events, now)

\* the calls into the event buffer of the loop over the candidate rules
RECURSIVE LeafCalls(_, _, _, _, _, _, _, _)
LeafCalls(rules, indices, ctx, events, now, lastFired, limits, st) ==
    IF indices = <<>> THEN 0
    ELSE
    LET rule == rules[Head(indices) + 1]
        rl == isRateLimited(rule.action, now, st.cat, st.glob, limits)
    IN  (IF ~rule.enabled \/ InCooldown(rule, now, lastFired) \/ rl.limited THEN 0
         ELSE ConditionCalls(rule.conditions, 1, ROne, ctx, events, now))
        + LeafCalls(rules, Tail(indices), ctx, events, now, lastFired, limits,
                    LeafStep(rule, InCooldown(rule, now, lastFired), rl,
                             ConfidenceLoop(rule.conditions, 1, ROne, ctx, events, now),
                             st))

\* the candidate rules of the leaf that evaluateNode(nodeIdx, ctx) reaches
RECURSIVE ReachedLeaf(_, _, _)
ReachedLeaf(tree, nodeIdx, ctx) ==
    IF nodeIdx < 0 \/ nodeIdx >= Len(tree) THEN <<>>
    ELSE
    LET node == tree[nodeIdx + 1]
        hits == IF node.splitKey \in DOMAIN ctx
                THEN {k \in 1..Len(node.branches) :
                         node.branches[k][1] = ctx[node.splitKey]}
                ELSE {}
    IN  IF node.splitKey = <<>> THEN node.ruleIndices
        ELSE IF hits # {}
        THEN ReachedLeaf(tree, node.branches[CHOOSE k \in hits : \A m \in hits : k <= m][2],
                         ctx)
        ELSE IF node.defaultChild >= 0 THEN ReachedLeaf(tree, node.defaultChild, ctx)
        ELSE <<>>

\* the calls of evaluate(ctx) into the event buffer
BufferCalls(ctx) ==
    LeafCalls(rules_,
              IF tree_ = <<>> THEN [i \in 1..Len(rules_) |-> i - 1]
              ELSE ReachedLeaf(tree_, 0, ctx),
              ctx, events_, clock, lastFired_, rateLimits_,
              [results |-> <<>>, cat |-> categoryFirings_, glob |-> globalFirings_])

\* ---- RuleEngine::evaluate (rule_engine.cpp 264-349) ----
BeginEvaluate(t, ctx) ==
    /\ Len(firedLog) + InProgress("evaluate", "") < MaxFirings
    /\ Begin(t, [op |-> "evaluate", ctx |-> ctx])

\* line 265: the engine mutex is taken; local keeps what the engine held.
\* touches: whether the matching will call into the event buffer, which the
\* rules, the context, the cooldowns and the limits decide, all fixed while
\* the engine mutex is held; the events decide what the buffer answers.
EvaluateLock(t) ==
    /\ At(t, {"evaluate"}, "called")
    /\ lockEngine
    /\ engineMu' = t
    /\ Goto(t, "matching")
    /\ local' = [local EXCEPT ![t] = [op |-> "evaluate", ctx |-> local[t].ctx,
                                      rules |-> rules_, tree |-> tree_,
                                      lastFired |-> lastFired_, limits |-> rateLimits_,
                                      touches |-> BufferCalls(local[t].ctx) > 0]]
    /\ UNCHANGED <<dataVars, bufferMu, mabMu>>

\* the rules are matched without a call into the event buffer
EvaluateMatch(t) ==
    /\ At(t, {"evaluate"}, "matching")
    /\ ~local[t].touches
    /\ EvaluateWrites(local[t].ctx, 5, 0, FALSE)
    /\ Goto(t, "matched")
    /\ UNCHANGED <<local, engineMu, bufferMu, mabMu, twin>>

\* matchCondition calls hasRecent or hasSequence, which takes the buffer
\* mutex (lines 164, 172, 32, 47); the rule lists explored reach one
\* temporal condition per evaluate
EvaluateBufferLock(t) ==
    /\ At(t, {"evaluate"}, "matching")
    /\ local[t].touches
    /\ lockBuffer
    /\ bufferMu' = t
    /\ Goto(t, "in_buffer")
    /\ UNCHANGED <<dataVars, local, engineMu, mabMu>>

\* the buffer answers and releases its mutex; the matching is completed
EvaluateBufferRead(t) ==
    /\ At(t, {"evaluate"}, "in_buffer")
    /\ EvaluateWrites(local[t].ctx, 5, 0, FALSE)
    /\ bufferMu' = unlock(t)
    /\ Goto(t, "matched")
    /\ UNCHANGED <<local, engineMu, mabMu, twin>>

EvaluateReturn(t) ==
    /\ At(t, {"evaluate"}, "matched")
    /\ engineMu' = unlock(t)
    /\ Return(t)
    /\ UNCHANGED <<dataVars, bufferMu, mabMu>>

\* ---- RuleEngine::pushEvent (148-150), EventBuffer::push (22-29) ----
BeginPushEvent(t, event) == Begin(t, [op |-> "pushEvent", event |-> event])

PushLock(t) ==
    /\ At(t, {"pushEvent"}, "called")
    /\ lockBuffer
    /\ bufferMu' = t
    /\ Goto(t, "pushing")
    /\ UNCHANGED <<dataVars, local, engineMu, mabMu>>

PushReturn(t) ==
    /\ At(t, {"pushEvent"}, "pushing")
    /\ PushWrites(local[t].event)
    /\ bufferMu' = unlock(t)
    /\ Return(t)
    /\ UNCHANGED <<engineMu, mabMu>>

\* ---- loadRules, addRule, removeRule, setLimits (95-125, 152-155) ----
ManageOps == {"loadRules", "addRule", "removeRule", "setLimits"}

BeginManage(t, call) == Begin(t, call)

\* lines 96, 103, 118, 153: the engine mutex is taken
ManageLock(t) ==
    /\ At(t, ManageOps, "called")
    /\ lockEngine
    /\ engineMu' = t
    /\ Goto(t, "locked")
    /\ UNCHANGED <<dataVars, local, bufferMu, mabMu>>

\* the rule array as the call leaves it
RulesAfter(rules, call) ==
    IF call.op = "loadRules" THEN call.rules
    ELSE IF call.op = "addRule" THEN AddedTo(rules, call.rule)
    ELSE Removed(rules, call.ruleId)

\* rules_ is written (lines 97, 107, 112, 122); the tree is still the old one
ManageAssign(t) ==
    /\ At(t, {"loadRules", "addRule", "removeRule"}, "locked")
    /\ local[t].op = "removeRule" => Removed(rules_, local[t].ruleId) # rules_
    /\ rules_' = RulesAfter(rules_, local[t])
    /\ changed' = (changed \cup ChangedIds(rules_, rules_')) \cap DOMAIN lastFired_
    /\ Goto(t, "assigned")
    /\ UNCHANGED <<clock, hashOrd, tree_, lastFired_, events_, rateLimits_,
                   categoryFirings_, globalFirings_, arms_, ret, firedLog,
                   limitsTouched, evalLog, ordered, epsilon_, linArms_, committed, twin,
                   local, engineMu, bufferMu, mabMu>>

\* compileTree() and return (lines 98-99, 108-109, 113-114, 123-124)
ManageCompile(t) ==
    /\ At(t, {"loadRules", "addRule", "removeRule"}, "assigned")
    /\ tree_' = compileTree(rules_, hashOrd)
    /\ ret' = [op |-> local[t].op, ok |-> TRUE]
    /\ engineMu' = unlock(t)
    /\ Return(t)
    /\ UNCHANGED <<clock, hashOrd, rules_, lastFired_, events_, rateLimits_,
                   categoryFirings_, globalFirings_, arms_, firedLog, changed,
                   limitsTouched, evalLog, ordered, epsilon_, linArms_, committed, twin,
                   bufferMu, mabMu>>

\* removeRule finds no rule with the id and returns false (line 121)
RemoveNothing(t) ==
    /\ At(t, {"removeRule"}, "locked")
    /\ Removed(rules_, local[t].ruleId) = rules_
    /\ ret' = [op |-> "removeRule", ok |-> FALSE]
    /\ engineMu' = unlock(t)
    /\ Return(t)
    /\ UNCHANGED <<clock, hashOrd, rules_, tree_, lastFired_, events_, rateLimits_,
                   categoryFirings_, globalFirings_, arms_, firedLog, changed,
                   limitsTouched, evalLog, ordered, epsilon_, linArms_, committed, twin,
                   bufferMu, mabMu>>

\* rateLimits_ = limits and return (line 154)
SetLimitsReturn(t) ==
    /\ At(t, {"setLimits"}, "locked")
    /\ rateLimits_' = local[t].limits
    /\ limitsTouched' = (limitsTouched \/ firedLog # <<>>)
    /\ ret' = NoRet
    /\ engineMu' = unlock(t)
    /\ Return(t)
    /\ UNCHANGED <<clock, hashOrd, rules_, tree_, lastFired_, events_,
                   categoryFirings_, globalFirings_, arms_, firedLog, changed,
                   evalLog, ordered, epsilon_, linArms_, committed, twin, bufferMu, mabMu>>

\* ---- MAB::update (mab.cpp 47-52) ----
BeginUpdate(t, actionId, reward) ==
    /\ ArmOf(arms_, actionId).pulls + InProgress("update", actionId) < MaxPulls
    /\ Begin(t, [op |-> "update", actionId |-> actionId, reward |-> reward])

UpdateLock(t) ==
    /\ At(t, {"update"}, "called")
    /\ lockMab
    /\ mabMu' = t
    /\ Goto(t, "updating")
    /\ UNCHANGED <<dataVars, local, engineMu, bufferMu>>

\* auto& arm = arms_[actionId]; arm.pulls++
UpdatePulls(t) ==
    /\ At(t, {"update"}, "updating")
    /\ arms_' = [a \in DOMAIN arms_ \cup {local[t].actionId} |->
                    IF a = local[t].actionId
                    THEN [ArmOf(arms_, a) EXCEPT !.pulls = @ + 1]
                    ELSE arms_[a]]
    /\ Goto(t, "pulled")
    /\ UNCHANGED <<clock, hashOrd, rules_, tree_, lastFired_, events_, rateLimits_,
                   categoryFirings_, globalFirings_, ret, firedLog, changed,
                   limitsTouched, evalLog, ordered, epsilon_, linArms_, committed, twin,
                   local, engineMu, bufferMu, mabMu>>

\* arm.totalReward += reward and return; committed is the map as the
\* updates that have returned leave it
UpdateReturn(t) ==
    /\ At(t, {"update"}, "pulled")
    /\ arms_' = [arms_ EXCEPT ![local[t].actionId].totalReward =
                                  RAdd(@, local[t].reward)]
    /\ committed' = Updated(committed, local[t].actionId, local[t].reward)
    /\ ret' = [op |-> "update", actionId |-> local[t].actionId,
               reward |-> local[t].reward]
    /\ mabMu' = unlock(t)
    /\ Return(t)
    /\ UNCHANGED <<clock, hashOrd, rules_, tree_, lastFired_, events_, rateLimits_,
                   categoryFirings_, globalFirings_, firedLog, changed,
                   limitsTouched, evalLog, ordered, epsilon_, linArms_, twin,
                   engineMu, bufferMu>>

\* ---- MAB::select (mab.cpp 14-45) ----
\* atStart: the map as the updates that returned before the call left it
BeginSelect(t, actionIds) ==
    Begin(t, [op |-> "select", actionIds |-> actionIds, atStart |-> committed])

\* line 15: no candidates, -1 is returned before the mutex is taken
SelectEmpty(t) ==
    /\ At(t, {"select"}, "called")
    /\ local[t].actionIds = <<>>
    /\ ret' = [op |-> "select", actionIds |-> <<>>, index |-> -1, explored |-> FALSE]
    /\ Return(t)
    /\ UNCHANGED <<clock, hashOrd, rules_, tree_, lastFired_, events_, rateLimits_,
                   categoryFirings_, globalFirings_, arms_, firedLog, changed,
                   limitsTouched, evalLog, ordered, epsilon_, linArms_, committed, twin,
                   engineMu, bufferMu, mabMu>>

SelectLock(t) ==
    /\ At(t, {"select"}, "called")
    /\ local[t].actionIds # <<>>
    /\ lockMab
    /\ mabMu' = t
    /\ Goto(t, "selecting")
    /\ UNCHANGED <<dataVars, local, engineMu, bufferMu>>

\* lines 19-44: arms_ is read and the index returned
SelectReturn(t) ==
    /\ At(t, {"select"}, "selecting")
    /\ \E out \in SelectOutcomes(arms_, epsilon_, local[t].actionIds) :
          ret' = [op |-> "select", actionIds |-> local[t].actionIds,
                  index |-> out.index, explored |-> out.explored]
    /\ mabMu' = unlock(t)
    /\ Return(t)
    /\ UNCHANGED <<clock, hashOrd, rules_, tree_, lastFired_, events_, rateLimits_,
                   categoryFirings_, globalFirings_, arms_, firedLog, changed,
                   limitsTouched, evalLog, ordered, epsilon_, linArms_, committed, twin,
                   engineMu, bufferMu>>

(***************************************************************************)
(* Two threads on one bandit.                                              *)
(***************************************************************************)
\* the steps of a bandit call that has begun
BanditProceed(t) ==
    \/ UpdateLock(t) \/ UpdatePulls(t) \/ UpdateReturn(t)
    \/ SelectEmpty(t) \/ SelectLock(t) \/ SelectReturn(t)

BanditBegin(t) ==
    \/ \E actionId \in {"a", "b"} : BeginUpdate(t, actionId, ROne)
    \/ \E actionIds \in {<<>>, <<"a", "b">>} : BeginSelect(t, actionIds)

NextBanditThreads == \E t \in Threads : BanditBegin(t) \/ BanditProceed(t)

SpecBanditThreads == Init /\ [][NextBanditThreads]_vars

(***************************************************************************)
(* Two threads on one engine.  The consumer thread calls evaluate and      *)
(* select; the other thread is the sensor ingestion and the control        *)
(* thread: pushEvent, update, loadRules, addRule, removeRule, setLimits.   *)
(***************************************************************************)
Consumer == "t1"
Ingestion == "t2"
\* two firings of a type in two hours
CategoryWide == [DefaultLimits EXCEPT !.categoryCooldownCount = 2,
                                      !.categoryCooldownWindowMs = 2 * HOUR_MS]
ThreadCalls ==
    {[op |-> "loadRules", rules |-> <<R4>>],
     [op |-> "addRule", rule |-> R1b], [op |-> "removeRule", ruleId |-> "R4"],
     [op |-> "setLimits", limits |-> CategoryWide]}

EngineProceed(t) ==
    \/ EvaluateLock(t) \/ EvaluateMatch(t) \/ EvaluateBufferLock(t)
    \/ EvaluateBufferRead(t) \/ EvaluateReturn(t)
    \/ PushLock(t) \/ PushReturn(t)
    \/ ManageLock(t) \/ ManageAssign(t) \/ ManageCompile(t) \/ RemoveNothing(t)
    \/ SetLimitsReturn(t)

\* the steps of a call that has begun
Proceed(t) == EngineProceed(t) \/ BanditProceed(t)

NextThreads ==
    \/ BeginEvaluate(Consumer, CtxWalking)
    \/ \E actionIds \in {<<>>, <<"act_R4">>} : BeginSelect(Consumer, actionIds)
    \/ events_ = <<>>
          /\ BeginPushEvent(Ingestion, [timestampMs |-> clock, eventType |-> AppOpen])
    \/ arms_ = EmptyMap /\ BeginUpdate(Ingestion, "act_R4", ROne)
    \/ \E call \in ThreadCalls : BeginManage(Ingestion, call)
    \/ \E t \in Threads : Proceed(t)

SpecThreads == Init /\ [][NextThreads]_vars

\* the places of a thread
Labels == {"idle", "called", "matching", "in_buffer", "matched", "pushing", "locked",
           "assigned", "updating", "pulled", "selecting"}

\* the thread is in a call and does not wait for a mutex: Proceed(t) is
\* enabled
CanProceed(t) ==
    /\ pc[t] # "idle"
    /\ At(t, {"evaluate"} \cup ManageOps, "called") => lockEngine
    /\ At(t, {"pushEvent"}, "called") => lockBuffer
    /\ At(t, {"update"}, "called") => lockMab
    /\ At(t, {"select"}, "called") => local[t].actionIds = <<>> \/ lockMab
    /\ At(t, {"evaluate"}, "matching") => ~local[t].touches \/ lockBuffer

\* the thread is scheduled and takes the step of its call: the steps of
\* Proceed(t) are the steps that move pc[t] from a place inside a call
Scheduled(t) ==
    /\ CanProceed(t)
    /\ \E label \in Labels : pc' = [pc EXCEPT ![t] = label]

\* fair scheduling: a thread whose call can proceed again and again is
\* scheduled, so a thread that waits for a mutex that is released again
\* and again gets it
SpecThreadsFair == SpecThreads /\ \A t \in Threads : SF_pc(Scheduled(t))

(***************************************************************************)
(* Two engines: the same rules, category limits, clock and evaluate calls, *)
(* with a lower and a higher globalMaxPerHour; the clock moves by 1 ms and *)
(* by one hour.                                                            *)
(***************************************************************************)
TwinLimits == {DefaultLimits, CategoryWide}
\* globalMaxPerHour of the engine and of the second engine
TwinMaxPerHour == {<<1, 2>>, <<0, 1>>, <<2, 3>>}
TwinLists == {<<R5a>>, <<R1, R2>>}
TwinContexts == {CtxWalking, CtxLow}

NextTwin ==
    \/ \E rules \in TwinLists : rules_ = <<>> /\ LoadRules(rules)
    \/ \E limits \in TwinLimits, n \in TwinMaxPerHour : TwinSetLimits(limits, n[1], n[2])
    \/ \E ctx \in TwinContexts : rules_ # <<>> /\ TwinEvaluate(ctx, 5)
    \/ \E step \in {1, HOUR_MS} : Tick(step)

SpecTwin == Init /\ [][NextTwin]_vars

(***************************************************************************)
(* ruleCount and exportRulesJson beside the other calls.  ruleCount        *)
(* (context_engine.h 244) returns rules_.size() and takes no mutex: when   *)
(* it runs while another thread is inside the critical section of a call   *)
(* that writes rules_, the read and the write are a data race, and the     *)
(* value read is not determined (size() subtracts two pointers that the    *)
(* writer replaces one after the other).                                   *)
(***************************************************************************)
BeginRuleCount(t) == Begin(t, [op |-> "ruleCount"])

\* the other threads inside the critical section of a call that will write
\* rules_ (lines 97, 107, 112, 122)
Writers(t) ==
    {u \in Threads \ {t} :
        /\ At(u, {"loadRules", "addRule", "removeRule"}, "locked")
        /\ local[u].op = "removeRule" => Removed(rules_, local[u].ruleId) # rules_}

\* what a read of rules_.size() that races with the write of rules_ may
\* return: the old size, the new size, or a difference of an old and a new
\* pointer (kept here to the numbers up to one past the larger size)
RacyCounts(old, new) ==
    0..((IF Len(old) >= Len(new) THEN Len(old) ELSE Len(new)) + 1)

RuleCountOutcomes(t) ==
    IF Writers(t) = {} THEN {Len(rules_)}
    ELSE UNION {RacyCounts(rules_, RulesAfter(rules_, local[u])) : u \in Writers(t)}

\* size_t ruleCount() const { return rules_.size(); }
RuleCountRead(t) ==
    /\ At(t, {"ruleCount"}, "called")
    /\ \E count \in RuleCountOutcomes(t) :
          ret' = [op |-> "ruleCount", count |-> count, raced |-> Writers(t) # {}]
    /\ Return(t)
    /\ UNCHANGED <<clock, hashOrd, rules_, tree_, lastFired_, events_, rateLimits_,
                   categoryFirings_, globalFirings_, arms_, firedLog, changed,
                   limitsTouched, evalLog, ordered, epsilon_, linArms_, committed, twin,
                   engineMu, bufferMu, mabMu>>

BeginExport(t) == Begin(t, [op |-> "exportRulesJson"])

\* rule_engine.cpp 352: the engine mutex is taken
ExportLock(t) ==
    /\ At(t, {"exportRulesJson"}, "called")
    /\ lockEngine
    /\ engineMu' = t
    /\ Goto(t, "exporting")
    /\ UNCHANGED <<dataVars, local, bufferMu, mabMu>>

\* the rules are written out, one object per rule in array order, and the
\* mutex is released
ExportReturn(t) ==
    /\ At(t, {"exportRulesJson"}, "exporting")
    /\ ret' = [op |-> "exportRulesJson",
               ids |-> [i \in 1..Len(rules_) |-> rules_[i].id]]
    /\ engineMu' = unlock(t)
    /\ Return(t)
    /\ UNCHANGED <<clock, hashOrd, rules_, tree_, lastFired_, events_, rateLimits_,
                   categoryFirings_, globalFirings_, arms_, firedLog, changed,
                   limitsTouched, evalLog, ordered, epsilon_, linArms_, committed, twin,
                   bufferMu, mabMu>>

NextCount ==
    \/ NextThreads
    \/ BeginRuleCount(Consumer)
    \/ BeginExport(Consumer)
    \/ \E t \in Threads : RuleCountRead(t) \/ ExportLock(t) \/ ExportReturn(t)

SpecCount == Init /\ [][NextCount]_vars

(***************************************************************************)
(* LinUCB.  context_engine.h declares the class (166-201); its member      *)
(* functions are defined in no file of the source tree, so update and the  *)
(* feature vector follow the design document (4.7).  A context is taken as *)
(* parsed: hour, batteryLevel, the two flags and motionState.  The hours   *)
(* are the quarter days, whose sine and cosine are exact.                  *)
(***************************************************************************)
LINUCB_DIM == 8
Dim == 1..LINUCB_DIM

\* sin(2 pi hour / 24) and cos(2 pi hour / 24) at the quarter days
HourSin(hour) == CASE hour = 0 -> RZero [] hour = 6 -> ROne
                   [] hour = 12 -> RZero [] hour = 18 -> RInt(-1)
HourCos(hour) == CASE hour = 0 -> ROne [] hour = 6 -> RZero
                   [] hour = 12 -> RInt(-1) [] hour = 18 -> RZero
Flag(b) == IF b THEN ROne ELSE RZero

\* LinUCB::buildFeatureVec(ctx)
buildFeatureVec(ctx) ==
    << HourSin(ctx.hour), HourCos(ctx.hour), RNorm(ctx.batteryLevel, 100),
       Flag(ctx.isCharging), Flag(ctx.isWeekend),
       Flag(ctx.motionState = "stationary"), Flag(ctx.motionState = "active"),
       Flag(ctx.motionState = "vehicle") >>

\* LinUCBArm of an arm never updated: A the identity, b zero
FreshArm == [A |-> [i \in Dim |-> [j \in Dim |-> IF i = j THEN ROne ELSE RZero]],
             b |-> [i \in Dim |-> RZero]]
LinArmOf(arms, actionId) == IF actionId \in DOMAIN arms THEN arms[actionId] ELSE FreshArm

\* mutation of LinUpdated: b gains the feature vector, not reward times it
LinUpdatedUnscaled(arms, actionId, reward, ctx) ==
    LET x == buildFeatureVec(ctx)
    IN  [a \in DOMAIN arms \cup {actionId} |->
            IF a = actionId
            THEN [A |-> [i \in Dim |-> [j \in Dim |->
                            RAdd(LinArmOf(arms, a).A[i][j], RMul(x[i], x[j]))]],
                  b |-> [i \in Dim |-> RAdd(LinArmOf(arms, a).b[i], x[i])]]
            ELSE arms[a]]

\* the arms after LinUCB::update(actionId, reward, ctx):
\* A <- A + x x^T, b <- b + reward x
LinUpdated(arms, actionId, reward, ctx) ==
    LET x == buildFeatureVec(ctx)
    IN  [a \in DOMAIN arms \cup {actionId} |->
            IF a = actionId
            THEN [A |-> [i \in Dim |-> [j \in Dim |->
                            RAdd(LinArmOf(arms, a).A[i][j], RMul(x[i], x[j]))]],
                  b |-> [i \in Dim |-> RAdd(LinArmOf(arms, a).b[i],
                                            RMul(reward, x[i]))]]
            ELSE arms[a]]

\* the updates an arm has seen: every feature vector has sin^2 + cos^2 = 1,
\* so the first two diagonal entries of A grow by one in sum per update
UpdatesOf(arm) == RAdd(arm.A[1][1], arm.A[2][2])[1] - 2
RECURSIVE SumUpdates(_, _)
SumUpdates(arms, ids) ==
    IF ids = {} THEN 0
    ELSE LET a == CHOOSE a \in ids : TRUE
         IN  UpdatesOf(arms[a]) + SumUpdates(arms, ids \ {a})

\* the number of LinUCB updates explored
MaxLinUpdates == 2

\* void LinUCB::update(actionId, reward, ctx), reached through RuleEngine::linucb()
LinUpdate(actionId, reward, ctx) ==
    /\ SumUpdates(linArms_, DOMAIN linArms_) < MaxLinUpdates
    /\ linArms_' = LinUpdated(linArms_, actionId, reward, ctx)
    /\ ret' = [op |-> "linUpdate", actionId |-> actionId, reward |-> reward,
               ctx |-> ctx]
    /\ UNCHANGED <<clock, hashOrd, rules_, tree_, lastFired_, events_, rateLimits_,
                   categoryFirings_, globalFirings_, arms_, firedLog, changed,
                   limitsTouched, evalLog, ordered, epsilon_, committed, twin,
                   threadVars>>

LinContexts ==
    { [hour |-> 0, batteryLevel |-> 100, isCharging |-> TRUE, isWeekend |-> FALSE,
       motionState |-> "stationary"],
      [hour |-> 6, batteryLevel |-> 50, isCharging |-> FALSE, isWeekend |-> TRUE,
       motionState |-> "active"],
      [hour |-> 12, batteryLevel |-> 20, isCharging |-> FALSE, isWeekend |-> FALSE,
       motionState |-> "vehicle"],
      [hour |-> 18, batteryLevel |-> 0, isCharging |-> TRUE, isWeekend |-> TRUE,
       motionState |-> "walking"] }
LinRewards == {ROne, RHalf, RInt(-1)}
LinArms == {"a", "b"}

NextLinUCB ==
    \E actionId \in LinArms, reward \in LinRewards, ctx \in LinContexts :
        LinUpdate(actionId, reward, ctx)

SpecLinUCB == Init /\ [][NextLinUCB]_vars

(***************************************************************************)
(* The compiler on rules with six keys: lists deep enough for the depth    *)
(* test of compileTree, in two iteration orders of the build's hash maps.  *)
(***************************************************************************)
DeepKeys == <<Str("timeOfDay"), Str("hour"), Str("dayOfWeek"), Str("isWeekend"),
              Str("minute"), Str("networkType")>>
DeepConds(value) == [k \in 1..Len(DeepKeys) |-> Cond(DeepKeys[k], "eq", value)]
D1 == MkRule("D1", DeepConds(Str("1")), "suggestion", 1, 0)
D2 == MkRule("D2", DeepConds(Str("1")), "suggestion", 1, 0)
D3 == MkRule("D3", DeepConds(Str("1")), "automation", 2, 0)
D4 == MkRule("D4", DeepConds(Str("2")), "suggestion", 1, 0)

CompileOrder == DeepKeys \o <<KeyMotion, KeyBattery, Str("1"), Str("2"),
                              Str("walking"), Str("20")>>
Reversed(seq) == [i \in 1..Len(seq) |-> seq[Len(seq) + 1 - i]]
CompileOrders == {CompileOrder, Reversed(CompileOrder)}

CompileLists == {<<D1, D2, D3>>, <<D1, D2, D3, D4>>, <<R1, R2, R5a>>}
CompileAdded == {D1, D2, D3, D4, R2, Disabled(D3)}
CompileRemoved == {"D1", "D4", "R9"}

InitCompile == \E order \in CompileOrders : InitOf(RTenth, order)

NextCompile ==
    \/ \E rules \in CompileLists : LoadRules(rules)
    \/ \E rule \in CompileAdded : AddRule(rule)
    \/ \E ruleId \in CompileRemoved : RemoveRule(ruleId)

SpecCompile == InitCompile /\ [][NextCompile]_vars

(***************************************************************************)
(* Vocabulary of the properties.                                           *)
(***************************************************************************)
\* the step is a call of evaluate (no other operation returns a result list)
EvaluateStep == ret'.op = "evaluate"
ResultIds(results) == {results[i].ruleId : i \in 1..Len(results)}
\* the confidence evaluate computes for rule in the current state
ConfidenceOf(rule, ctx, now) ==
    ConfidenceLoop(rule.conditions, 1, ROne, ctx, events_, now)
\* the rule's conditions match: its confidence passes the 0.1 threshold
ConditionsMatch(rule, ctx, now) == RLt(RTenth, ConfidenceOf(rule, ctx, now))
\* the rate limits do not bind the rule's action at time now
LimitsFree(rule, now) ==
    ~isRateLimited(rule.action, now, categoryFirings_, globalFirings_,
                   rateLimits_).limited
\* the enabled rules with a cooldown that fired and whose definition has not
\* changed since
CooledRules ==
    {i \in 1..Len(rules_) :
        /\ rules_[i].enabled
        /\ rules_[i].cooldownMs > 0
        /\ rules_[i].id \in DOMAIN lastFired_
        /\ rules_[i].id \notin changed}

(***************************************************************************)
(* C1  Per-rule cooldown.                                                  *)
(***************************************************************************)
\* first half of C1: while less than cooldownMs has passed since rule R was
\* recorded as the top result, no evaluate returns R
CooldownBlocks ==
    EvaluateStep =>
        \A i \in CooledRules :
            clock - lastFired_[rules_[i].id] < rules_[i].cooldownMs
                => rules_[i].id \notin ResultIds(ret'.results)

\* second half of C1: once cooldownMs has passed, an evaluate whose context
\* matches R, with the rate limits not binding and room for every rule in
\* the result list, returns R again
CooldownReleases ==
    EvaluateStep =>
        \A i \in CooledRules :
            /\ clock - lastFired_[rules_[i].id] >= rules_[i].cooldownMs
            /\ LimitsFree(rules_[i], clock)
            /\ ConditionsMatch(rules_[i], ret'.ctx, clock)
            /\ ret'.maxResults >= Len(rules_)
            => rules_[i].id \in ResultIds(ret'.results)

\* C1: a rule R with cooldownMs = C > 0 and an unchanged definition that an
\* evaluate recorded as top result at time t is in no result list at a time
\* t' with t' - t < C, and is in the result list again at a time t' with
\* t' - t >= C when the rate limits do not bind and its conditions match.
C1_PerRuleCooldown == [][CooldownBlocks /\ CooldownReleases]_vars

\* the blocking half of C1 alone
C1_CooldownBlocks == [][CooldownBlocks]_vars

\* the releasing half of C1 for engines whose tree is a single leaf or absent
C1_CooldownReleasesAtLeaf == [][Len(tree_) <= 1 => CooldownReleases]_vars

\* an evaluate inside the cooldown of R1 whose context matches R1 did not
\* return R1
C1_Witness ==
    /\ ret.op = "evaluate"
    /\ "R1" \in DOMAIN lastFired_ /\ "R1" \notin changed
    /\ \E i \in 1..Len(rules_) :
          /\ rules_[i] = R1
          /\ ret.now - lastFired_["R1"] < R1.cooldownMs
          /\ ConditionsMatch(R1, ret.ctx, ret.now)
    /\ "R1" \notin ResultIds(ret.results)

(***************************************************************************)
(* C2  Global rate limit.                                                  *)
(***************************************************************************)
\* the firings recorded with a timestamp in [from, to]
FiringsIn(from, to) ==
    {j \in 1..Len(firedLog) : from <= firedLog[j].ts /\ firedLog[j].ts <= to}

\* no interval of 3 600 000 ms holds more than globalMaxPerHour firings (an
\* interval that holds the most firings can be taken to start at one)
GlobalWindowBound ==
    ~limitsTouched =>
        \A i \in 1..Len(firedLog) :
            Cardinality(FiringsIn(firedLog[i].ts, firedLog[i].ts + HOUR_MS))
                <= rateLimits_.globalMaxPerHour

\* an evaluate made while globalMaxPerHour firings lie in the preceding hour
\* returns the empty list
GlobalLimitBlocks ==
    EvaluateStep /\ ~limitsTouched
        /\ Cardinality(FiringsIn(clock - HOUR_MS, clock)) >= rateLimits_.globalMaxPerHour
        => ret'.results = <<>>

\* C2: under fixed limits with globalMaxPerHour = N no interval of
\* 3 600 000 ms ever holds more than N recorded firings, and an evaluate made
\* while N firings are recorded within the preceding hour returns the empty
\* list.
C2_GlobalRateLimit == [][GlobalWindowBound' /\ GlobalLimitBlocks]_vars

\* an evaluate was blocked by the global limit alone: R1 matched, was not in
\* cooldown and its category had room, yet the list is empty
C2_Witness ==
    /\ ret.op = "evaluate" /\ ret.results = <<>>
    /\ ~limitsTouched /\ rateLimits_ = GlobalTight
    /\ Cardinality(FiringsIn(ret.now - HOUR_MS, ret.now)) = 1
    /\ firedLog[1].ruleId = "R2"
    /\ rules_ = <<R1, R2>>
    /\ ConditionsMatch(R1, ret.ctx, ret.now)
    /\ ~InCooldown(R1, ret.now, lastFired_)

(***************************************************************************)
(* C3  Category cooldown.                                                  *)
(***************************************************************************)
ActionTypes == {rules_[i].action.type : i \in 1..Len(rules_)}

\* categoryCooldownCount firings of type T have a timestamp >= now - window
Saturated(T, now) ==
    Cardinality({j \in 1..Len(firedLog) :
                    /\ firedLog[j].type = T
                    /\ firedLog[j].ts >= now - rateLimits_.categoryCooldownWindowMs})
        >= rateLimits_.categoryCooldownCount

\* the rule indices of the leaf that the descent from nodeIdx reaches for ctx
RECURSIVE LeafIndices(_, _, _)
LeafIndices(tree, nodeIdx, ctx) ==
    IF nodeIdx < 0 \/ nodeIdx >= Len(tree) THEN <<>>
    ELSE LET node == tree[nodeIdx + 1]
             hits == IF node.splitKey \in DOMAIN ctx
                     THEN {k \in 1..Len(node.branches) :
                              node.branches[k][1] = ctx[node.splitKey]}
                     ELSE {}
         IN  IF node.splitKey = <<>> THEN node.ruleIndices
             ELSE IF hits # {}
             THEN LeafIndices(tree, node.branches[CHOOSE k \in hits :
                                                     \A m \in hits : k <= m][2], ctx)
             ELSE LeafIndices(tree, node.defaultChild, ctx)

\* the positions in rules_ of the rules evaluate visits for ctx
Visited(ctx) ==
    IF tree_ = <<>> THEN 1..Len(rules_)
    ELSE {LeafIndices(tree_, 0, ctx)[k] + 1 :
             k \in 1..Len(LeafIndices(tree_, 0, ctx))}

CategoryCooldown ==
    EvaluateStep /\ ~limitsTouched =>
        \A T \in ActionTypes :
            Saturated(T, clock) =>
                /\ \A k \in 1..Len(ret'.results) : ret'.results[k].action.type # T
                /\ \A i \in Visited(ret'.ctx) :
                      /\ rules_[i].enabled
                      /\ rules_[i].action.type # T
                      /\ ~Saturated(rules_[i].action.type, clock)
                      /\ Cardinality(FiringsIn(clock - HOUR_MS, clock))
                            < rateLimits_.globalMaxPerHour
                      /\ ~InCooldown(rules_[i], clock, lastFired_)
                      /\ ConditionsMatch(rules_[i], ret'.ctx, clock)
                      /\ ret'.maxResults >= Len(rules_)
                      => rules_[i].id \in ResultIds(ret'.results)

\* C3: under fixed limits, once categoryCooldownCount firings of an action
\* type T are recorded with timestamps >= now - categoryCooldownWindowMs,
\* evaluate returns no rule of type T, while a visited, matching rule of
\* another type whose own category has room is still returned as long as the
\* global limit is not reached.
C3_CategoryCooldown == [][CategoryCooldown]_vars

\* with the suggestion category saturated, an evaluate whose context matches
\* R2 (suggestion) and R1 (automation) returned R1 alone
C3_Witness ==
    /\ ret.op = "evaluate"
    /\ ~limitsTouched /\ rateLimits_ = CategoryTight
    /\ rules_ = <<R1, R2>>
    /\ Len(firedLog) = 2
    /\ firedLog[1].type = "suggestion"
    /\ firedLog[1].ts >= ret.now - CategoryTight.categoryCooldownWindowMs
    /\ firedLog[2].ts >= ret.now
    /\ ConditionsMatch(R2, ret.ctx, ret.now)
    /\ ResultIds(ret.results) = {"R1"}

(***************************************************************************)
(* C4  Fire-one bookkeeping.                                               *)
(***************************************************************************)
\* q is p without some of its oldest entries
IsSuffix(q, p) ==
    Len(q) <= Len(p) /\ q = SubSeq(p, Len(p) - Len(q) + 1, Len(p))

\* q is p, trimmed of some of its oldest entries, with one timestamp appended
OneAppended(q, p, ts) ==
    q # <<>> /\ q[Len(q)] = ts /\ IsSuffix(SubSeq(q, 1, Len(q) - 1), p)

DequeOf(cat, T) == IF T \in DOMAIN cat THEN cat[T] ELSE <<>>

FireOne ==
    EvaluateStep /\ ret'.results # <<>> =>
        LET top == ret'.results[1]
        IN  /\ DOMAIN lastFired_' = DOMAIN lastFired_ \cup {top.ruleId}
            /\ lastFired_'[top.ruleId] = clock'
            /\ \A id \in DOMAIN lastFired_ \ {top.ruleId} :
                  lastFired_'[id] = lastFired_[id]
            /\ OneAppended(globalFirings_', globalFirings_, clock')
            /\ DOMAIN categoryFirings_' = DOMAIN categoryFirings_ \cup {top.action.type}
            /\ OneAppended(categoryFirings_'[top.action.type],
                           DequeOf(categoryFirings_, top.action.type), clock')
            /\ \A T \in DOMAIN categoryFirings_ \ {top.action.type} :
                  IsSuffix(categoryFirings_'[T], categoryFirings_[T])

\* C4: an evaluate that returns a non-empty list sets lastFired for the rule
\* at position 0 only, appends exactly one timestamp to the global deque and
\* exactly one to the category deque of that rule's action type, and leaves
\* lastFired of every other rule, returned or not, as it was.
C4_FireOne == [][FireOne]_vars

\* an evaluate returned R1 below the top and R1 has never been recorded
C4_Witness ==
    /\ ret.op = "evaluate"
    /\ Len(ret.results) = 2
    /\ ret.results[2].ruleId = "R1"
    /\ "R1" \notin DOMAIN lastFired_
    /\ lastFired_[ret.results[1].ruleId] >= ret.now
    /\ Len(globalFirings_) = 1

(***************************************************************************)
(* C5  Scenario S5.                                                        *)
(***************************************************************************)
S5Done == Len(evalLog) = 3
\* the id of the top result of the k-th evaluation, "" when it returned none
S5Top(k) == IF evalLog[k].results = <<>> THEN "" ELSE evalLog[k].results[1].ruleId
S5Decreasing == rules_[1].priority > rules_[2].priority
                    /\ rules_[2].priority > rules_[3].priority

Sorted(events) ==
    \A i, j \in 1..Len(events) :
        i < j => events[i].timestampMs <= events[j].timestampMs
BufferBounded == Len(events_) <= maxSize_
NoneExpired(now) ==
    \A i \in 1..Len(events_) : events_[i].timestampMs >= now - MAX_AGE_MS

\* C6 as stated: after any sequence of pushes the buffer holds at most
\* maxSize events and, at the time of the last push, no event older than
\* now - MAX_AGE_MS.
C6_EventBufferBounded ==
    BufferBounded /\ (ret.op = "pushEvent" => NoneExpired(ret.now))

\* C6 amended: the buffer never holds more than maxSize events; after a push
\* it holds no event older than now - MAX_AGE_MS provided that no push so far
\* broke the timestamp order and the event just pushed is itself not older.
C6_EventBufferBoundedAmended ==
    /\ BufferBounded
    /\ ret.op = "pushEvent" /\ ordered
          /\ events_[Len(events_)].timestampMs >= ret.now - MAX_AGE_MS
          => NoneExpired(ret.now)

\* a push in timestamp order dropped two expired events from a buffer that
\* was full
C6_Witness ==
    /\ ret.op = "pushEvent" /\ ordered
    /\ ret.dropped = 3
    /\ Len(events_) = maxSize_ - 2
    /\ events_[Len(events_)].timestampMs = ret.now

(***************************************************************************)
(* C7  hasRecent.                                                          *)
(***************************************************************************)
RecentExists(events, now, eventType, withinMs) ==
    \E i \in 1..Len(events) :
        /\ events[i].eventType = eventType
        /\ events[i].timestampMs >= now - withinMs

HasRecentAnswer ==
    ret'.op = "hasRecent" =>
        /\ events_' = events_
        /\ Sorted(events_) =>
              ret'.value = RecentExists(events_, clock, ret'.eventType, ret'.withinMs)

\* C7: on a buffer in timestamp order hasRecent(type, withinMs) is true if
\* and only if the buffer holds an event of that type with timestamp
\* >= now - withinMs, and the query leaves the buffer as it was.
C7_HasRecent == [][HasRecentAnswer]_vars

\* hasRecent answered no on an ordered buffer that holds an event of the type
\* outside the window and a newer event of the other type inside it
C7_Witness ==
    /\ ret.op = "hasRecent" /\ ~ret.value
    /\ Sorted(events_) /\ Len(events_) >= 2
    /\ events_[1].eventType = ret.eventType
    /\ events_[1].timestampMs < ret.now - ret.withinMs
    /\ events_[Len(events_)].eventType # ret.eventType
    /\ events_[Len(events_)].timestampMs >= ret.now - ret.withinMs

(***************************************************************************)
(* C8  hasSequence.                                                        *)
(***************************************************************************)
SequenceExists(events, now, eventA, eventB, withinMs) ==
    \E i, j \in 1..Len(events) :
        /\ events[i].eventType = eventA /\ events[j].eventType = eventB
        /\ events[i].timestampMs >= now - withinMs
        /\ events[j].timestampMs >= now - withinMs
        /\ events[i].timestampMs < events[j].timestampMs

\* S4: geofence_enter@1000 then app_open@2000, window 5000
S4Events == <<[timestampMs |-> 1000, eventType |-> GeofenceEnter],
              [timestampMs |-> 2000, eventType |-> AppOpen]>>
S4Outcome ==
    /\ matchCondition(WithinCond, CtxEmpty, S4Events, 3000) = ROne
    /\ matchCondition(WithinCond, CtxEmpty, S4Events, 7000) = RZero

\* the answers of hasSequence, and of a within condition, agree with the
\* existence of an A strictly before a B, both inside the window
SequenceAnswers ==
    /\ ret.op = "hasSequence" =>
          ret.value = SequenceExists(events_, ret.now, ret.eventA, ret.eventB,
                                     ret.withinMs)
    /\ ret.op = "matchCondition" /\ ret.cond = WithinCond =>
          ret.value = IF SequenceExists(events_, ret.now, GeofenceEnter, AppOpen, 5000)
                      THEN ROne ELSE RZero

\* C8 as stated: hasSequence(typeA, typeB, withinMs) is true if and only if
\* the buffer holds an a of typeA and a b of typeB, both with timestamp
\* >= now - withinMs, with a.timestamp < b.timestamp, as in S4.
C8_HasSequence == S4Outcome /\ SequenceAnswers

\* C8 amended: the same for every buffer in timestamp order.
C8_HasSequenceAmended == S4Outcome /\ (Sorted(events_) => SequenceAnswers)

\* hasSequence answered no on an ordered buffer whose only A in the window
\* has the timestamp of the latest B
C8_Witness ==
    /\ ret.op = "hasSequence" /\ ~ret.value
    /\ ret.eventA = GeofenceEnter /\ ret.eventB = AppOpen
    /\ Sorted(events_) /\ Len(events_) = 2
    /\ events_[1].eventType = AppOpen /\ events_[2].eventType = GeofenceEnter
    /\ events_[1].timestampMs = events_[2].timestampMs
    /\ events_[1].timestampMs >= ret.now - ret.withinMs

(***************************************************************************)
(* C9  Ranking and truncation.                                             *)
(***************************************************************************)
UniqueIds == \A i, j \in 1..Len(rules_) : rules_[i].id = rules_[j].id => i = j

\* the positions of the rules that evaluate visits for ctx and that pass the
\* per-rule filters and the 0.1 threshold: the matching rules
MatchingRules(ctx) ==
    {i \in Visited(ctx) :
        /\ rules_[i].enabled
        /\ ~InCooldown(rules_[i], clock, lastFired_)
        /\ LimitsFree(rules_[i], clock)
        /\ ConditionsMatch(rules_[i], ctx, clock)}

\* confidence x priority of the rule at position i
RuleScore(i, ctx) == RMul(ConfidenceOf(rules_[i], ctx, clock), RInt(rules_[i].priority))
\* confidence x priority of a returned entry, the priority taken from the
\* rule with its id
EntryScore(r) ==
    RMul(r.confidence,
         RInt(rules_[CHOOSE i \in 1..Len(rules_) : rules_[i].id = r.ruleId].priority))

Ranked ==
    EvaluateStep /\ UniqueIds =>
        LET results == ret'.results
            matching == MatchingRules(ret'.ctx)
        IN  /\ Len(results) <= ret'.maxResults
            /\ Len(results) = IF Cardinality(matching) < ret'.maxResults
                              THEN Cardinality(matching) ELSE ret'.maxResults
            /\ ResultIds(results) \subseteq {rules_[i].id : i \in matching}
            /\ \A k, l \in 1..Len(results) :
                  k < l => RLe(EntryScore(results[l]), EntryScore(results[k]))
            /\ \A i \in matching :
                  rules_[i].id \notin ResultIds(results) =>
                      \A k \in 1..Len(results) :
                          RLe(RuleScore(i, ret'.ctx), EntryScore(results[k]))

\* C9: for every maxResults >= 0 the list evaluate returns has at most
\* maxResults entries (as many as there are matching rules when these are
\* fewer), is ordered by confidence x priority non-increasing, and no
\* matching rule left out has a strictly higher confidence x priority than
\* a returned one.
C9_RankingAndTruncation == [][Ranked]_vars

\* an evaluate with maxResults = 1 returned R2 (0.75 x 3) and left out R1
\* (1.0 x 1), which has the higher confidence and the lower score
C9_Witness ==
    /\ ret.op = "evaluate" /\ ret.maxResults = 1
    /\ rules_ = <<R1, R2>>
    /\ ret.ctx = CtxWalkingLow
    /\ Len(ret.results) = 1
    /\ ret.results[1].ruleId = "R2"
    /\ ret.results[1].confidence = <<3, 4>>
    /\ "R1" \notin DOMAIN lastFired_

(***************************************************************************)
(* C10  Dedup.                                                             *)
(***************************************************************************)
Deduplicated ==
    EvaluateStep =>
        LET results == ret'.results
            matching == MatchingRules(ret'.ctx)
        IN  /\ \A k, l \in 1..Len(results) :
                  results[k].ruleId = results[l].ruleId => k = l
            /\ \A k \in 1..Len(results) :
                  LET same == {i \in matching : rules_[i].id = results[k].ruleId}
                  IN  /\ \E i \in same :
                            ConfidenceOf(rules_[i], ret'.ctx, clock) = results[k].confidence
                      /\ \A i \in same :
                            RLe(ConfidenceOf(rules_[i], ret'.ctx, clock),
                                results[k].confidence)

\* C10: the list evaluate returns holds each ruleId at most once, with the
\* maximum confidence computed during the evaluation for a rule of that id;
\* for a rule set with unique ids this is the confidence of the rule.
C10_Dedup == [][Deduplicated]_vars

\* an evaluate over a rule set with unique ids returned two rules, each once,
\* R2 with its confidence 0.75 and R1 with its confidence 1
C10_Witness ==
    /\ ret.op = "evaluate"
    /\ rules_ = <<R1, R2>> /\ UniqueIds
    /\ Len(ret.results) = 2
    /\ ret.results[1].ruleId = "R2" /\ ret.results[1].confidence = <<3, 4>>
    /\ ret.results[2].ruleId = "R1" /\ ret.results[2].confidence = ROne

(***************************************************************************)
(* C11  Recompile idempotence.                                             *)
(***************************************************************************)
\* what evaluate(ctx) may return on top in a state: <<ruleId, confidence>>
\* of the first result of every order the sort may produce, <<>> for an
\* empty result list
TopOutcomes(rules, tree, ctx, events, now, lastFired, limits, cat, glob) ==
    {IF sorted = <<>> THEN <<>> ELSE <<sorted[1].ruleId, sorted[1].confidence>> :
        sorted \in sortByScore(rules,
                               Matches(rules, tree, ctx, events, now, lastFired,
                                       limits, cat, glob).results)}

\* the step is loadRules(R) on an engine whose rule array is R already, as
\* loadRules(R) leaves it
ReloadStep == ret'.op = "loadRules" /\ ret'.before = ret'.rules

RecompileIdempotent ==
    ReloadStep =>
        /\ rules_' = rules_
        /\ tree_' = tree_
        /\ UNCHANGED <<clock, lastFired_, events_, rateLimits_, categoryFirings_,
                       globalFirings_>>
        /\ \A ctx \in ManageContexts :
              TopOutcomes(rules_', tree_', ctx, events_', clock', lastFired_',
                          rateLimits_', categoryFirings_', globalFirings_')
              = TopOutcomes(rules_, tree_, ctx, events_, clock, lastFired_,
                            rateLimits_, categoryFirings_, globalFirings_)

\* C11: loading the rule list R a second time leaves the compiled tree and
\* every other thing evaluate reads as the first loadRules(R) left them, so
\* evaluate(ctx) has the same top rule and confidence after loadRules(R);
\* loadRules(R) as after loadRules(R).
C11_RecompileIdempotence == [][RecompileIdempotent]_vars

\* a list of three rules, compiled into a tree with a split node, was loaded
\* a second time after a firing, and evaluate would return a rule
C11_Witness ==
    /\ ret.op = "loadRules" /\ ret.before = ret.rules
    /\ Len(rules_) = 3 /\ Len(tree_) > 1
    /\ lastFired_ # EmptyMap
    /\ <<>> \notin TopOutcomes(rules_, tree_, CtxWalking, events_, clock, lastFired_,
                               rateLimits_, categoryFirings_, globalFirings_)

(***************************************************************************)
(* C12  Reconstruction invariant.                                          *)
(***************************************************************************)
\* the leaves a descent from nodeIdx ends in for some context: a context may
\* hold any branch value for the split key, another value, or no value
RECURSIVE ReachableLeaves(_, _)
ReachableLeaves(tree, nodeIdx) ==
    IF nodeIdx < 0 \/ nodeIdx >= Len(tree) THEN {}
    ELSE LET node == tree[nodeIdx + 1]
             children == {node.branches[k][2] : k \in 1..Len(node.branches)}
                         \cup {node.defaultChild}
         IN  IF node.splitKey = <<>> THEN {nodeIdx}
             ELSE UNION {ReachableLeaves(tree, c) : c \in children}

IndicesOf(node) == {node.ruleIndices[k] : k \in 1..Len(node.ruleIndices)}

EnabledReachLeaf ==
    \A i \in 1..Len(rules_) :
        rules_[i].enabled =>
            \E n \in ReachableLeaves(tree_, 0) : (i - 1) \in IndicesOf(tree_[n + 1])

EnabledInSomeNode ==
    \A i \in 1..Len(rules_) :
        rules_[i].enabled =>
            \E n \in 1..Len(tree_) : (i - 1) \in IndicesOf(tree_[n])

DisabledOmitted ==
    \A n \in 1..Len(tree_) : \A idx \in IndicesOf(tree_[n]) : rules_[idx + 1].enabled

\* C12: in the compiled tree the index of every enabled rule is in the rule
\* list of a leaf that a descent from the root reaches for some context, and
\* the index of no disabled rule is in any leaf.
C12_Reconstruction == EnabledReachLeaf /\ DisabledOmitted

\* the part of C12 that holds: no disabled rule is in a leaf
C12_DisabledOmitted == DisabledOmitted

\* every enabled rule is in the rule list of some leaf of the array, whether
\* a descent reaches that leaf or not
C12_EnabledInSomeNode == EnabledInSomeNode

\* a list with three enabled rules and a disabled one was compiled into a
\* tree with a split node
C12_Witness ==
    /\ Len(tree_) > 1
    /\ tree_[1].splitKey # <<>>
    /\ \E i \in 1..Len(rules_) : ~rules_[i].enabled

(***************************************************************************)
(* C13  Rule management preserves the runtime state.                       *)
(***************************************************************************)
RuleOpStep == ret'.op \in {"loadRules", "addRule", "removeRule"}

RuntimeStatePreserved ==
    RuleOpStep => UNCHANGED <<lastFired_, categoryFirings_, globalFirings_, events_,
                              arms_>>

\* a loaded rule with a cooldown whose id fired less than the cooldown ago is
\* in no result list, whatever happened to the rule array since the firing
CooldownSurvives ==
    EvaluateStep =>
        \A i \in 1..Len(rules_) :
            /\ rules_[i].cooldownMs > 0
            /\ rules_[i].id \in DOMAIN lastFired_
            /\ clock - lastFired_[rules_[i].id] < rules_[i].cooldownMs
            => rules_[i].id \notin ResultIds(ret'.results)

\* C13: loadRules, addRule and removeRule leave lastFired, the category and
\* global firing deques, the event buffer and the bandit arm statistics
\* unchanged, and a rule loaded again under the id of a rule that fired is
\* kept out of the results until the cooldown since that firing has passed.
C13_RuleManagementFrame == [][RuntimeStatePreserved /\ CooldownSurvives]_vars

\* R1 fired, was removed and has just been added again within its cooldown,
\* with an event in the buffer and a bandit arm updated
C13_Witness ==
    /\ ret.op = "addRule" /\ ret.rule = R1
    /\ "R1" \notin IdsOf(ret.before)
    /\ "R1" \in DOMAIN lastFired_
    /\ clock - lastFired_["R1"] < R1.cooldownMs
    /\ events_ # <<>>
    /\ arms_ # EmptyMap

(***************************************************************************)
(* C14  Rule-id uniqueness.                                                *)
(***************************************************************************)
\* addRule with a loaded id replaces the rule of that id and keeps the
\* count; addRule with a new id appends the rule
AddRuleUpserts ==
    ret'.op = "addRule" =>
        LET rule == ret'.rule
            same == {i \in 1..Len(rules_) : rules_[i].id = rule.id}
        IN  IF same # {}
            THEN /\ Len(rules_') = Len(rules_)
                 /\ \E i \in same : rules_' = [rules_ EXCEPT ![i] = rule]
            ELSE rules_' = Append(rules_, rule)

\* C14: after every loadRules, addRule and removeRule no two loaded rules
\* share an id; addRule with a loaded id replaces that rule and leaves the
\* rule count unchanged, addRule with a new id increases the count by one.
C14_RuleIdUniqueness == [][UniqueIds' /\ AddRuleUpserts]_vars

\* the parts of C14 that hold: addRule is an upsert, and addRule and
\* removeRule keep the ids unique when they were
C14_AddRuleUpserts == [][AddRuleUpserts]_vars
C14_UniquenessKept ==
    [][(UniqueIds /\ ret'.op \in {"addRule", "removeRule"}) => UniqueIds']_vars

\* a list holding the id R2 twice has been loaded
C14_Witness ==
    /\ ret.op = "loadRules"
    /\ rules_ = <<R2, R2b>>
    /\ ~UniqueIds

(***************************************************************************)
(* C15  removeRule.                                                        *)
(***************************************************************************)
RemoveRuleContract ==
    ret'.op = "removeRule" =>
        /\ ret'.ok = (ret'.ruleId \in IdsOf(rules_))
        /\ ret'.ok =>
              /\ ret'.ruleId \notin IdsOf(rules_')
              /\ rules_' = SelectSeq(rules_, LAMBDA r : r.id # ret'.ruleId)
              /\ tree_' = compileTree(rules_', hashOrd)
        /\ ~ret'.ok => rules_' = rules_ /\ tree_' = tree_

\* evaluate returns loaded rules only
OnlyLoadedReturned == EvaluateStep => ResultIds(ret'.results) \subseteq IdsOf(rules_)

\* C15: removeRule(id) returns true exactly when a rule with the id was
\* loaded; after a true return no rule with the id is loaded, the other rules
\* are kept in order and no evaluate returns the id while it is not loaded;
\* after a false return the rule array and the tree are as before.
C15_RemoveRule == [][RemoveRuleContract /\ OnlyLoadedReturned]_vars

\* R1 had fired and has just been removed, other rules staying loaded
C15_Witness ==
    /\ ret.op = "removeRule" /\ ret.ok /\ ret.ruleId = "R1"
    /\ "R1" \in DOMAIN lastFired_
    /\ "R1" \notin IdsOf(rules_)
    /\ rules_ # <<>>

(***************************************************************************)
(* Vocabulary of the soft-matcher properties.                              *)
(***************************************************************************)
\* the last step scored one condition against a context
MatchAnswer == ret.op = "matchCondition"
\* the last step evaluated a context against one loaded rule of one condition
OneRuleAnswer ==
    ret.op = "evaluate" /\ Len(rules_) = 1 /\ Len(rules_[1].conditions) = 1
\* evaluate returned exactly the loaded rule, with this confidence
ReturnedWith(confidence) ==
    /\ Len(ret.results) = 1
    /\ ret.results[1].ruleId = rules_[1].id
    /\ ret.results[1].confidence = confidence
\* the step evaluates a context against one loaded rule of one condition,
\* which has no cooldown, while the rate limits do not bind its action
OneRuleStep ==
    /\ EvaluateStep
    /\ Len(rules_) = 1 /\ Len(rules_[1].conditions) = 1
    /\ rules_[1].cooldownMs = 0
    /\ LimitsFree(rules_[1], clock)
KnownOps == {"eq", "neq", "gt", "gte", "lt", "lte", "in", "range", "recent", "within"}

(***************************************************************************)
(* C16  Missing key.                                                       *)
(***************************************************************************)
SoftOps == {"in", "gt", "gte", "lt", "lte", "range"}

MissingKeyHalf ==
    (MatchAnswer /\ ret.cond.op \in SoftOps /\ ret.cond.key \notin DOMAIN ret.ctx)
        => ret.value = RHalf

MissingKeyRuleMatches ==
    (/\ OneRuleStep
     /\ rules_[1].conditions[1].op \in SoftOps
     /\ rules_[1].conditions[1].key \notin DOMAIN ret'.ctx)
        => ReturnedWith(RHalf)'

\* C16: a condition with op in, gt, gte, lt, lte or range whose key is not
\* in the context scores 0.5, and a rule of one such condition is returned
\* with confidence 0.5 by every evaluate that the rate limits do not bind.
C16_MissingKey == []MissingKeyHalf /\ [][MissingKeyRuleMatches]_vars

\* the rule batteryLevel lt "20" was evaluated for a context without
\* batteryLevel and returned with confidence 0.5
C16_Witness ==
    /\ OneRuleAnswer
    /\ rules_[1].conditions[1] = Cond(KeyBattery, "lt", Str("20"))
    /\ KeyBattery \notin DOMAIN ret.ctx
    /\ ReturnedWith(RHalf)

(***************************************************************************)
(* C17  Missing key with eq / neq.                                         *)
(***************************************************************************)
MissingKeyEq == MatchAnswer /\ ret.cond.op \in {"eq", "neq"}
                            /\ ret.cond.key \notin DOMAIN ret.ctx

MissingKeyEqHalf == MissingKeyEq => ret.value = RHalf

MissingKeyEqRuleMatches ==
    (/\ OneRuleStep
     /\ rules_[1].conditions[1].op \in {"eq", "neq"}
     /\ rules_[1].conditions[1].key \notin DOMAIN ret'.ctx)
        => ReturnedWith(RHalf)'

C18_UnknownOp ==
    /\ (MatchAnswer /\ ret.cond.op \notin KnownOps) => ret.value = RZero
    /\ (OneRuleAnswer /\ rules_[1].conditions[1].op \notin KnownOps) => ret.results = <<>>

\* what the code returns for an unknown op: 0.5 without the key, string
\* equality when the actual or the condition value is not a number, and 0
\* when both are numbers
C18_UnknownOpActual ==
    (MatchAnswer /\ ret.cond.op \notin KnownOps) =>
        ret.value =
            IF ret.cond.key \notin DOMAIN ret.ctx THEN RHalf
            ELSE IF /\ tryParseDouble(ret.ctx[ret.cond.key])
                    /\ tryParseDouble(ret.cond.value) THEN RZero
            ELSE IF ret.ctx[ret.cond.key] = ret.cond.value THEN ROne
            ELSE RZero

\* the rule motionState contains "walking" was returned with confidence 1
C18_Witness ==
    /\ OneRuleAnswer
    /\ rules_[1].conditions[1] = Cond(KeyMotion, "contains", Str("walking"))
    /\ ret.ctx = [k \in {KeyMotion} |-> Str("walking")]
    /\ ReturnedWith(ROne)

(***************************************************************************)
(* C19  range.                                                             *)
(***************************************************************************)
\* value is "lo,hi" with two numbers, lo <= hi
WellFormedRange(value) ==
    /\ Len(splitCsv(value)) = 2
    /\ tryParseDouble(splitCsv(value)[1])
    /\ tryParseDouble(splitCsv(value)[2])
    /\ RLe(ParsedDouble(splitCsv(value)[1]), ParsedDouble(splitCsv(value)[2]))

\* the score the spec gives for actual against [lo, hi]
RangeScore(actual, lo, hi) ==
    IF RLe(lo, actual) /\ RLe(actual, hi) THEN ROne
    ELSE RMax(RZero,
              RSub(ROne,
                   RDiv(IF RLt(actual, lo) THEN RSub(lo, actual) ELSE RSub(actual, hi),
                        RMax(RMul(RSub(hi, lo), RTenth), ROne))))

\* the last step scored a well-formed range condition against a context
\* that holds a number under the key
RangeAnswer ==
    /\ MatchAnswer
    /\ ret.cond.op = "range"
    /\ WellFormedRange(ret.cond.value)
    /\ ret.cond.key \in DOMAIN ret.ctx
    /\ tryParseDouble(ret.ctx[ret.cond.key])

\* C19: a range condition "lo,hi" (lo <= hi) scores 1 for a numeric actual
\* inside [lo, hi] and max(0, 1 - dist / max((hi - lo) * 0.1, 1)) outside;
\* S3: "9,17" gives 1 for 12, 0.5 for 17.5 and 0 for 20.
C19_Range ==
    RangeAnswer =>
        ret.value = RangeScore(ParsedDouble(ret.ctx[ret.cond.key]),
                               ParsedDouble(splitCsv(ret.cond.value)[1]),
                               ParsedDouble(splitCsv(ret.cond.value)[2]))

\* what the code returns: 0 for every numeric actual, inside the interval
\* or not
C19_RangeActual == RangeAnswer => ret.value = RZero

\* hour range "9,17" was scored for hour 12: 0
C19_Witness ==
    /\ MatchAnswer
    /\ ret.cond = Cond(KeyHour, "range", RangeValue)
    /\ ret.ctx = [k \in {KeyHour} |-> Str("12")]
    /\ ret.value = RZero

(***************************************************************************)
(* C20  Numeric soft decay.                                                *)
(***************************************************************************)
\* the comparison op holds between the numbers actual and value
Holds(op, actual, value) ==
    CASE op = "gt" -> RLt(value, actual)
      [] op = "gte" -> RLe(value, actual)
      [] op = "lt" -> RLt(actual, value)
      [] op = "lte" -> RLe(actual, value)

\* 1 when the comparison holds, else max(0, 1 - diff / margin) with diff the
\* size of the violation and margin = max(|value| * 0.1, 1)
DecayScore(op, actual, value) ==
    IF Holds(op, actual, value) THEN ROne
    ELSE RMax(RZero,
              RSub(ROne, RDiv(RAbs(RSub(actual, value)),
                              RMax(RMul(RAbs(value), RTenth), ROne))))

NumericDecay ==
    (/\ MatchAnswer
     /\ ret.cond.op \in {"gt", "gte", "lt", "lte"}
     /\ ret.cond.key \in DOMAIN ret.ctx
     /\ tryParseDouble(ret.ctx[ret.cond.key])
     /\ tryParseDouble(ret.cond.value))
        => ret.value = DecayScore(ret.cond.op, ParsedDouble(ret.ctx[ret.cond.key]),
                                  ParsedDouble(ret.cond.value))

\* S2: batteryLevel lt "20" does not match 22 and matches 20.5 with 0.75
LtTwenty == <<Cond(KeyBattery, "lt", Str("20"))>>
Battery22 == [k \in {KeyBattery} |-> Str("22")]
Battery20p5 == [k \in {KeyBattery} |-> Str("20.5")]

ScenarioS2 ==
    /\ (/\ EvaluateStep
        /\ Len(rules_) = 1 /\ rules_[1].conditions = LtTwenty
        /\ ret'.ctx = Battery22)
           => ret'.results = <<>>
    /\ (/\ OneRuleStep
        /\ rules_[1].conditions = LtTwenty
        /\ ret'.ctx = Battery20p5)
           => ReturnedWith(<<3, 4>>)'

\* C20: gt, gte, lt and lte over a numeric actual and value score 1 when the
\* comparison holds and max(0, 1 - diff / max(|value| * 0.1, 1)) otherwise;
\* batteryLevel lt "20" scores 0 for 22 (the rule is not returned) and 0.75
\* for 20.5 (the rule is returned with 0.75 by every evaluate that the rate
\* limits do not bind).
C20_NumericSoftDecay == []NumericDecay /\ [][ScenarioS2]_vars

\* the rule batteryLevel lt "20" was returned with confidence 0.75 for the
\* context batteryLevel 20.5
C20_Witness ==
    /\ OneRuleAnswer
    /\ rules_[1].conditions[1] = Cond(KeyBattery, "lt", Str("20"))
    /\ ret.ctx = [k \in {KeyBattery} |-> Str("20.5")]
    /\ ReturnedWith(<<3, 4>>)

(***************************************************************************)
(* C21  Score totality.                                                    *)
(***************************************************************************)
InUnit(x) == RLe(RZero, x) /\ RLe(x, ROne)

ScoreTotal == MatchAnswer => InUnit(ret.value)

ConfidenceInRange ==
    ret.op = "evaluate" =>
        \A i \in 1..Len(ret.results) :
            /\ RLt(RTenth, ret.results[i].confidence)
            /\ RLe(ret.results[i].confidence, ROne)

\* C21: matchCondition returns a value in [0, 1] for every condition and
\* context (values that do not parse, IEEE specials and reversed ranges
\* included), and every confidence evaluate returns lies in (0.1, 1].
C21_ScoreTotality == ScoreTotal /\ ConfidenceInRange

\* batteryLevel lt "20" was scored against an infinite actual: 0
C21_Witness ==
    /\ MatchAnswer
    /\ ret.cond = LtCond
    /\ ret.ctx = [k \in {KeyBattery} |-> Str("inf")]
    /\ ret.value = RZero

(***************************************************************************)
(* C22  Short-circuit equivalence.                                         *)
(***************************************************************************)
\* the product of all the condition scores
RECURSIVE FullProduct(_, _, _, _)
FullProduct(conditions, ctx, events, now) ==
    IF conditions = <<>> THEN ROne
    ELSE RMul(FullProduct(SubSeq(conditions, 1, Len(conditions) - 1), ctx, events, now),
              matchCondition(conditions[Len(conditions)], ctx, events, now))

\* the loop left the rule's conditions before the last one
CutShort(rule, ctx, events, now) ==
    \E k \in 1..(Len(rule.conditions) - 1) :
        RLt(FullProduct(SubSeq(rule.conditions, 1, k), ctx, events, now), RHundredth)

ShortCircuitEquivalent ==
    EvaluateStep =>
        /\ \A i \in 1..Len(rules_) :
              \E short \in {ConfidenceLoop(rules_[i].conditions, 1, ROne, ret'.ctx,
                                            events_, ret'.now)},
                 full \in {FullProduct(rules_[i].conditions, ret'.ctx, events_,
                                        ret'.now)} :
                  /\ RLt(RTenth, short) <=> RLt(RTenth, full)
                  /\ RLt(RTenth, short) => short = full
        /\ \A k \in 1..Len(ret'.results) :
              \E i \in 1..Len(rules_) :
                  /\ rules_[i].id = ret'.results[k].ruleId
                  /\ ret'.results[k].confidence =
                        FullProduct(rules_[i].conditions, ret'.ctx, events_, ret'.now)

\* C22: for every rule and context of an evaluate call, the product of the
\* condition scores with the loop left below 0.01 passes the 0.1 threshold
\* exactly when the product of all the scores does, with the same value,
\* and every confidence returned is the product of all the scores of a
\* rule with the returned id.
C22_ShortCircuit == [][ShortCircuitEquivalent]_vars

\* RS1 was returned with 0.25 * 0.5 while the loop left RS3 after its
\* fourth condition
C22_Witness ==
    /\ ret.op = "evaluate"
    /\ rules_ = <<RS1, RS3>>
    /\ CutShort(RS3, ret.ctx, events_, ret.now)
    /\ \E k \in 1..Len(ret.results) :
          ret.results[k].ruleId = "RS1" /\ ret.results[k].confidence = <<1, 8>>

(***************************************************************************)
(* Vocabulary of the bandit properties.                                    *)
(***************************************************************************)
\* the last step was a select with at least one candidate
SelectAnswer == ret.op = "select" /\ ret.actionIds # <<>>
\* the score of a candidate: the average reward of an arm that was pulled,
\* 1.0 for an arm that is unknown or was never pulled
ArmScore(arms, actionId) ==
    IF actionId \in DOMAIN arms /\ arms[actionId].pulls > 0
    THEN RDiv(arms[actionId].totalReward, RInt(arms[actionId].pulls))
    ELSE ROne
\* the first index (0-based) of a candidate that no candidate outscores
FirstBest(arms, actionIds) ==
    CHOOSE i \in 0..(Len(actionIds) - 1) :
        /\ \A j \in 0..(Len(actionIds) - 1) :
              ~RLt(ArmScore(arms, actionIds[i + 1]), ArmScore(arms, actionIds[j + 1]))
        /\ \A j \in 0..(i - 1) :
              RLt(ArmScore(arms, actionIds[j + 1]), ArmScore(arms, actionIds[i + 1]))
ArmIs(actionId, pulls, totalReward) ==
    /\ actionId \in DOMAIN arms_
    /\ arms_[actionId] = [pulls |-> pulls, totalReward |-> totalReward]

(***************************************************************************)
(* C24  Epsilon-greedy exploitation.                                       *)
(***************************************************************************)
ExploitsBest ==
    (SelectAnswer /\ epsilon_ = RZero) => ret.index = FirstBest(arms_, ret.actionIds)

\* S6: a has 0.2 three times and b 0.9 once: b; after update(a, 2.0): b;
\* after a second update(a, 2.0): a
ScenarioS6 ==
    (SelectAnswer /\ epsilon_ = RZero /\ ret.actionIds = <<"a", "b">>
                  /\ ArmIs("b", 1, <<9, 10>>)) =>
        /\ ArmIs("a", 3, <<3, 5>>) => ret.index = 1
        /\ ArmIs("a", 4, <<13, 5>>) => ret.index = 1
        /\ ArmIs("a", 5, <<23, 5>>) => ret.index = 0

\* C24: with epsilon 0, select returns the first index of a candidate with
\* the highest score (average reward, 1.0 for an unknown or unpulled arm);
\* in scenario S6 it returns b, b again after update(a, 2.0) and a after a
\* second update(a, 2.0).
C24_Exploitation == ExploitsBest /\ ScenarioS6

\* what the code does: the claim holds whenever some candidate scores above
\* -1e9, the value bestAvg starts from; when none does, index 0 is returned
C24_ExploitationAboveStart ==
    /\ ScenarioS6
    /\ (SelectAnswer /\ epsilon_ = RZero) =>
          ret.index =
              IF \E i \in 1..Len(ret.actionIds) :
                    RLt(RInt(BEST_AVG_START), ArmScore(arms_, ret.actionIds[i]))
              THEN FirstBest(arms_, ret.actionIds)
              ELSE 0

\* select([x, y]) returned x (index 0) although y has the higher average
C24_Witness ==
    /\ SelectAnswer /\ epsilon_ = RZero
    /\ ret.actionIds = <<"x", "y">>
    /\ ArmIs("x", 1, RInt(2 * BEST_AVG_START))
    /\ ArmIs("y", 1, RInt(BEST_AVG_START))
    /\ ret.index = 0

(***************************************************************************)
(* C25  Bandit selection range.                                            *)
(***************************************************************************)
SelectRange ==
    ret.op = "select" =>
        /\ ret.index = -1 <=> ret.actionIds = <<>>
        /\ ret.actionIds # <<>> => ret.index \in 0..(Len(ret.actionIds) - 1)

SelectReadsOnly == ret'.op = "select" => arms_' = arms_

\* C25: select returns -1 exactly for an empty candidate list and an index
\* of the list otherwise, whether it explores or exploits, and leaves the
\* arms as they are (no arm created, no statistics changed).
C25_SelectRange == []SelectRange /\ [][SelectReadsOnly]_vars

\* select([a, c]) explored and returned index 1; the unknown arm c was not
\* created
C25_Witness ==
    /\ ret.op = "select" /\ ret.explored
    /\ ret.actionIds = <<"a", "c">> /\ ret.index = 1
    /\ DOMAIN arms_ = {"a"}

(***************************************************************************)
(* C26  Bandit update.                                                     *)
(***************************************************************************)
UpdateAddsOne ==
    ret'.op = "update" =>
        /\ DOMAIN arms_' = DOMAIN arms_ \cup {ret'.actionId}
        /\ arms_'[ret'.actionId].pulls = ArmOf(arms_, ret'.actionId).pulls + 1
        /\ arms_'[ret'.actionId].totalReward =
              RAdd(ArmOf(arms_, ret'.actionId).totalReward, ret'.reward)
        /\ \A a \in DOMAIN arms_ \ {ret'.actionId} : arms_'[a] = arms_[a]

\* the totals that n updates with rewards from the set can add up to
RECURSIVE SumsOf(_, _)
SumsOf(rewards, n) ==
    IF n = 0 THEN {RZero}
    ELSE {RAdd(sum, reward) : sum \in SumsOf(rewards, n - 1), reward \in rewards}

\* every arm's total is the sum of as many rewards as the arm has pulls
ArmsAreSums ==
    \A a \in DOMAIN arms_ :
        /\ arms_[a].pulls \in 0..BanditPulls[a]
        /\ arms_[a].totalReward \in SumsOf(BanditRewards[a], arms_[a].pulls)

\* C26: update(actionId, reward) adds 1 to the pulls and reward to the
\* totalReward of that arm, created at 0 and 0 when unknown, and changes no
\* other arm; so every arm's pulls count its updates and its totalReward is
\* the sum of their rewards.
C26_Update == []ArmsAreSums /\ [][UpdateAddsOne]_vars

\* a was updated with 0.2 and then with 2.0 while b is known
C26_Witness ==
    /\ ret.op = "update" /\ ret.actionId = "a" /\ ret.reward = RInt(2)
    /\ ArmIs("a", 2, <<11, 5>>)
    /\ "b" \in DOMAIN arms_

(***************************************************************************)
(* C23  Rate-limit monotonicity.                                           *)
(***************************************************************************)
\* the firings of a log in the hour that starts at from
FiringsInHour(log, from) ==
    Cardinality({i \in 1..Len(log) : from <= log[i].ts /\ log[i].ts < from + HOUR_MS})

\* the hours that begin or end at a firing of either engine: every hour
\* holds the same firings as one of these
HourStarts ==
    {firedLog[i].ts : i \in 1..Len(firedLog)}
    \cup {firedLog[i].ts - HOUR_MS : i \in 1..Len(firedLog)}
    \cup {twin.firedLog[i].ts : i \in 1..Len(twin.firedLog)}
    \cup {twin.firedLog[i].ts - HOUR_MS : i \in 1..Len(twin.firedLog)}

\* the engines differ in globalMaxPerHour only, the second has the higher
TwinsDiffer ==
    /\ rateLimits_.globalMaxPerHour <= twin.limits.globalMaxPerHour
    /\ [rateLimits_ EXCEPT !.globalMaxPerHour = 0]
          = [twin.limits EXCEPT !.globalMaxPerHour = 0]

\* C23: of two engines with the same rules, category limits, clock and
\* evaluate calls that differ only in globalMaxPerHour, the one with the
\* higher value records in every hour at least as many firings as the other.
C23_RateLimitMonotone ==
    TwinsDiffer =>
        \A from \in HourStarts :
            FiringsInHour(twin.firedLog, from) >= FiringsInHour(firedLog, from)

\* the limiter's answer for the action with globalMaxPerHour set to n
LimitedAt(action, cat, glob, limits, n) ==
    isRateLimited(action, clock, cat, glob, [limits EXCEPT !.globalMaxPerHour = n]).limited

\* for one firing history and clock, what passes under a limit passes
\* under every higher limit
LimiterMonotone ==
    \A i \in 1..Len(rules_), n \in 0..3 :
        /\ LimitedAt(rules_[i].action, categoryFirings_, globalFirings_, rateLimits_, n + 1)
              => LimitedAt(rules_[i].action, categoryFirings_, globalFirings_,
                           rateLimits_, n)
        /\ LimitedAt(rules_[i].action, twin.cat, twin.glob, twin.limits, n + 1)
              => LimitedAt(rules_[i].action, twin.cat, twin.glob, twin.limits, n)

\* while both engines have recorded the same firings, an evaluate that
\* fires in the engine fires in the second engine
SecondFiresToo ==
    (/\ EvaluateStep /\ TwinsDiffer
     /\ firedLog = twin.firedLog
     /\ firedLog' # firedLog)
        => twin'.firedLog # twin.firedLog

\* C23 as the code has it: monotone per decision, not per hour.
C23_RateLimitMonotoneAmended == []LimiterMonotone /\ [][SecondFiresToo]_vars

\* an evaluate fired in the second engine only (the engine was at its
\* global limit), and a later one in the engine only
C23_Witness ==
    /\ TwinsDiffer
    /\ Len(firedLog) = 2 /\ Len(twin.firedLog) = 2
    /\ firedLog[1] = twin.firedLog[1]
    /\ twin.firedLog[2].ts < firedLog[2].ts

(***************************************************************************)
(* C27  Bandit linearizability.                                            *)
(***************************************************************************)
\* the thread is in select, holds the bandit mutex and is about to read arms_
Selecting(t) == At(t, {"select"}, "selecting")

\* the map a select reads is the map as the returned updates left it: every
\* arm has the reward of each of its pulls (all rewards here are 1.0)
SelectSeesWhole ==
    \A t \in Threads :
        Selecting(t) =>
            /\ arms_ = committed
            /\ \A a \in DOMAIN arms_ : arms_[a].totalReward = RInt(arms_[a].pulls)

\* the updates that had returned when the select began are in the map it reads
SelectSeesReturned ==
    \A t \in Threads :
        Selecting(t) =>
            \A a \in DOMAIN local[t].atStart :
                /\ a \in DOMAIN arms_
                /\ arms_[a].pulls >= local[t].atStart[a].pulls

\* C27: a select running beside updates on other threads reads, for every
\* arm, the pulls and totalReward of whole returned updates, and every
\* update that returned before the select began is among them.
C27_Linearizable == SelectSeesWhole /\ SelectSeesReturned

\* a select reads while an update of another thread waits for the mutex,
\* after updates returned before and after the select began
C27_Witness ==
    \E t, u \in Threads :
        /\ Selecting(t)
        /\ At(u, {"update"}, "called")
        /\ local[t].atStart # EmptyMap
        /\ local[t].atStart # committed

(***************************************************************************)
(* C28  Evaluate atomicity.                                                *)
(***************************************************************************)
\* the thread is in evaluate between taking the engine mutex and returning
Evaluating(t) == At(t, {"evaluate"}, "matching") \/ At(t, {"evaluate"}, "in_buffer")
                 \/ At(t, {"evaluate"}, "matched")

\* until evaluate has matched, the engine holds what it held when evaluate
\* took the mutex, the tree is the one compiled from the rule array, and no
\* rule-management call is under way
EvaluateReadsOneState ==
    \A t \in Threads :
        At(t, {"evaluate"}, "matching") \/ At(t, {"evaluate"}, "in_buffer") =>
            /\ rules_ = local[t].rules
            /\ tree_ = local[t].tree
            /\ lastFired_ = local[t].lastFired
            /\ rateLimits_ = local[t].limits
            /\ tree_ = compileTree(rules_, hashOrd)
            /\ \A u \in Threads \ {t} : pc[u] \in {"idle", "called"}
                                          \/ local[u].op \notin ManageOps

\* while an evaluate holds the engine mutex no rule-management call takes
\* effect or returns
ManageWaits ==
    (\E t \in Threads : Evaluating(t)) =>
        /\ UNCHANGED <<rules_, tree_, rateLimits_>>
        /\ \A u \in Threads : local[u].op \in ManageOps => pc'[u] = pc[u]

\* C28: evaluate reads rules, tree, lastFired and limits of one state
\* between rule-management calls; a rule-management call that begins while
\* evaluate holds the engine mutex takes effect after evaluate has returned.
C28_EvaluateAtomic == []EvaluateReadsOneState /\ [][ManageWaits]_vars

\* an evaluate holds the engine mutex over loaded rules while a
\* rule-management call of the other thread has begun and waits
C28_Witness ==
    \E t, u \in Threads :
        /\ At(t, {"evaluate"}, "matching")
        /\ rules_ # <<>>
        /\ At(u, {"loadRules", "addRule", "removeRule"}, "called")

(***************************************************************************)
(* C29  Lock discipline.                                                   *)
(***************************************************************************)
\* the thread is inside hasRecent, hasSequence or push
InBuffer(t) == pc[t] \in {"in_buffer", "pushing"}

\* C29: no thread holds the engine mutex while it is inside a call into
\* the event buffer (hasRecent, hasSequence, push).
C29_LockDiscipline == \A t \in Threads : InBuffer(t) => engineMu # t

\* evaluate is inside hasSequence with the engine mutex held
C29_Witness ==
    \E t \in Threads :
        /\ At(t, {"evaluate"}, "in_buffer")
        /\ engineMu = t /\ bufferMu = t
        /\ \E i \in 1..Len(rules_) : \E k \in 1..Len(rules_[i].conditions) :
              rules_[i].conditions[k].op = "within"

(***************************************************************************)
(* C30  Deadlock freedom.                                                  *)
(***************************************************************************)
\* a thread that takes the engine mutex does not hold the buffer mutex
LockOrder == \A t \in Threads : engineMu' = t /\ engineMu # t => bufferMu # t

\* a thread about to take a mutex does not hold it
NoReacquire ==
    \A t \in Threads :
        /\ pc[t] = "called" => engineMu # t /\ bufferMu # t /\ mabMu # t
        /\ pc[t] = "matching" => bufferMu # t

HoldsOlder(q, cutoff) == \E i \in 1..Len(q) : q[i] < cutoff

\* what a consult of the limiter for the action leaves behind holds no
\* timestamp outside the windows
ConsultTrims(action, now, cat, glob, limits) ==
    \E rl \in {isRateLimited(action, now, cat, glob, limits)} :
        /\ action.type \in DOMAIN rl.cat =>
              ~HoldsOlder(rl.cat[action.type], now - limits.categoryCooldownWindowMs)
        /\ ~HoldsOlder(rl.glob, now - HOUR_MS)

\* C31: every consult of the rate limiter at time now leaves the category
\* deque of the consulted type without a timestamp older than
\* now - categoryCooldownWindowMs and the global deque without a timestamp
\* older than now - 3 600 000, whatever the consult answers.
C31_SlidingWindow ==
    \A i \in 1..Len(rules_) :
        ConsultTrims(rules_[i].action, clock, categoryFirings_, globalFirings_,
                     rateLimits_)

\* as the code has it: the category deque is always trimmed, the global
\* deque when the category test does not block
C31_TrimmedUnlessCategoryBlocks ==
    \A i \in 1..Len(rules_) :
        \E rl \in {isRateLimited(rules_[i].action, clock, categoryFirings_,
                                  globalFirings_, rateLimits_)} :
            /\ rules_[i].action.type \in DOMAIN rl.cat =>
                  ~HoldsOlder(rl.cat[rules_[i].action.type],
                              clock - rateLimits_.categoryCooldownWindowMs)
            /\ HoldsOlder(rl.glob, clock - HOUR_MS) =>
                  /\ rl.limited
                  /\ rules_[i].action.type \in DOMAIN rl.cat
                  /\ Len(rl.cat[rules_[i].action.type])
                        >= rateLimits_.categoryCooldownCount

\* a consult blocked by the category limit while the global deque holds
\* firings more than an hour old
C31_Witness ==
    \E i \in 1..Len(rules_) :
        \E rl \in {isRateLimited(rules_[i].action, clock, categoryFirings_,
                                  globalFirings_, rateLimits_)} :
            /\ rl.limited
            /\ HoldsOlder(rl.glob, clock - HOUR_MS)
            /\ ~HoldsOlder(rl.cat[rules_[i].action.type],
                            clock - rateLimits_.categoryCooldownWindowMs)

(***************************************************************************)
(* C32  LinUCB update.                                                     *)
(***************************************************************************)
LinUpdateStep == ret'.op = "linUpdate"

\* C32: after LinUCB::update(a, r, ctx) the matrix A of arm a has gained the
\* outer product of the feature vector of ctx with itself and the vector b
\* of arm a has gained r times the feature vector, an unseen arm starting
\* from A = identity and b = 0; every other arm is unchanged.
C32_LinUCBUpdate ==
    [][LinUpdateStep =>
        \E a \in {ret'.actionId}, x \in {buildFeatureVec(ret'.ctx)} :
            \E before \in {IF a \in DOMAIN linArms_ THEN linArms_[a] ELSE FreshArm} :
                /\ DOMAIN linArms_' = DOMAIN linArms_ \cup {a}
                /\ \A i, j \in Dim :
                      linArms_'[a].A[i][j] = RAdd(before.A[i][j], RMul(x[i], x[j]))
                /\ \A i \in Dim :
                      linArms_'[a].b[i] = RAdd(before.b[i], RMul(ret'.reward, x[i]))
                /\ \A other \in DOMAIN linArms_ \ {a} :
                      linArms_'[other] = linArms_[other]]_vars

\* a second update of an arm, with a reward other than 1
C32_Witness ==
    /\ ret.op = "linUpdate"
    /\ ret.reward = RHalf
    /\ UpdatesOf(linArms_[ret.actionId]) = 2

(***************************************************************************)
(* C33  Branch-to-child mapping.                                           *)
(***************************************************************************)
\* the node of index childIdx was compiled, as a child of the node of index
\* nodeIdx, from exactly the rules of indices
BuiltFrom(built, childIdx, nodeIdx, indices) ==
    /\ childIdx + 1 \in 1..Len(built)
    /\ built[childIdx + 1].parentIdx = nodeIdx
    /\ built[childIdx + 1].indices = indices

\* every branch of the node leads to the node compiled from its group plus
\* the rules without an eq condition on the split key
BranchesLead(rules, tree, built, n) ==
    \A k \in 1..Len(tree[n + 1].branches) :
        BuiltFrom(built, tree[n + 1].branches[k][2], n,
                  Group(rules, built[n + 1].indices, tree[n + 1].splitKey,
                        tree[n + 1].branches[k][1])
                  \o NoCondition(rules, built[n + 1].indices, tree[n + 1].splitKey))

\* the default child is the node compiled from the rules without an eq
\* condition on the split key
DefaultLeads(rules, tree, built, n) ==
    tree[n + 1].defaultChild # -1 =>
        BuiltFrom(built, tree[n + 1].defaultChild, n,
                  NoCondition(rules, built[n + 1].indices, tree[n + 1].splitKey))

\* branches with different groups have different children
BranchesApart(rules, tree, built, n) ==
    \A k, l \in 1..Len(tree[n + 1].branches) :
        Group(rules, built[n + 1].indices, tree[n + 1].splitKey,
              tree[n + 1].branches[k][1])
          # Group(rules, built[n + 1].indices, tree[n + 1].splitKey,
                  tree[n + 1].branches[l][1])
        => tree[n + 1].branches[k][2] # tree[n + 1].branches[l][2]

InternalNodes(tree) == {n \in 0..(Len(tree) - 1) : tree[n + 1].splitKey # <<>>}

\* C33: in the compiled tree, for each internal node and each branch value v,
\* the child index stored for v is the index of the node built from the
\* rules with an eq condition of value v on the split key plus the rules
\* without an eq condition on it; the default child is the node built from
\* the latter rules only; branches with different groups do not share a
\* child index.
C33_BranchToChild ==
    \E built \in {BuildTasks(rules_, hashOrd)} :
        \A n \in InternalNodes(tree_) :
            /\ BranchesLead(rules_, tree_, built, n)
            /\ DefaultLeads(rules_, tree_, built, n)
            /\ BranchesApart(rules_, tree_, built, n)

\* what the code guarantees: the task pushed last at a node (the default
\* task, or the last group when every rule has an eq condition) is the node
\* every branch and the default child lead to
C33_LastTaskOnly ==
    \E built \in {BuildTasks(rules_, hashOrd)} :
        /\ Len(built) = Len(tree_)
        /\ \A n \in InternalNodes(tree_) :
              /\ DefaultLeads(rules_, tree_, built, n)
              /\ \A k \in 1..Len(tree_[n + 1].branches) :
                    /\ tree_[n + 1].branches[k][2] = tree_[n + 1].branches[1][2]
                    /\ built[tree_[n + 1].branches[k][2] + 1].parentIdx = n
                    /\ tree_[n + 1].defaultChild # -1 =>
                          tree_[n + 1].branches[k][2] = tree_[n + 1].defaultChild

\* a compiled node with a branch and a default child
C33_Witness ==
    \E n \in InternalNodes(tree_) :
        /\ tree_[n + 1].branches # <<>>
        /\ tree_[n + 1].defaultChild # -1
        /\ tree_[n + 1].branches[1][2] = tree_[n + 1].defaultChild

(***************************************************************************)
(* C34  Tree/linear equivalence.                                           *)
(***************************************************************************)
ResultPairs(results) ==
    {<<results[i].ruleId, results[i].confidence>> : i \in 1..Len(results)}

\* the sets of (ruleId, confidence) that the linear evaluation of the rules
\* (the loop taken when no tree is compiled) can return in the current state
LinearAnswers(ctx, maxResults) ==
    {ResultPairs(Truncate(sorted, maxResults)) :
        sorted \in sortByScore(rules_,
                      Matches(rules_, <<>>, ctx, events_, clock, lastFired_,
                              rateLimits_, categoryFirings_, globalFirings_).results)}

TreeAsLinear ==
    (EvaluateStep /\ UniqueIds) =>
        ResultPairs(ret'.results) \in LinearAnswers(ret'.ctx, ret'.maxResults)

\* C34: for rules with unique ids, every context and the same clock,
\* cooldown and rate-limit state, evaluate through the compiled tree returns
\* the same set of (ruleId, confidence) as the linear evaluation of all
\* enabled rules.
C34_TreeLinearEquivalence == [][TreeAsLinear]_vars

\* the equivalence for trees that are a single leaf
C34_EquivalentAtLeaf == [][Len(tree_) <= 1 => TreeAsLinear]_vars

\* the tree never returns a pair the linear evaluation would not compute
C34_TreeWithinLinear ==
    [][(EvaluateStep /\ UniqueIds) =>
          ResultPairs(ret'.results) \subseteq
             ResultPairs(Matches(rules_, <<>>, ret'.ctx, events_, clock, lastFired_,
                                 rateLimits_, categoryFirings_,
                                 globalFirings_).results)]_vars

\* an evaluate through a tree with a split node returned nothing for a
\* context that matches a rule of the list
C34_Witness ==
    /\ ret.op = "evaluate"
    /\ UniqueIds
    /\ Len(tree_) > 1
    /\ ret.results = <<>>
    /\ \E i \in 1..Len(rules_) :
          /\ rules_[i].enabled
          /\ rules_[i].cooldownMs = 0
          /\ ConditionsMatch(rules_[i], ret.ctx, ret.now)
          /\ rules_[i].id \notin DOMAIN lastFired_
    /\ firedLog = <<>>

(***************************************************************************)
(* C35  Split candidates.                                                  *)
(***************************************************************************)
\* some rule of indices has a condition with one of the ops on key
ReferencedBy(rules, indices, key, ops) ==
    \E i \in 1..Len(indices) :
        \E j \in 1..Len(rules[indices[i] + 1].conditions) :
            /\ rules[indices[i] + 1].conditions[j].key = key
            /\ rules[indices[i] + 1].conditions[j].op \in ops

\* the keys of the conditions of the rules of indices
KeysOf(rules, indices) ==
    {rules[indices[s[1]] + 1].conditions[s[2]].key :
        s \in ConditionSlots(rules, indices)}

\* the split key of an internal node is referenced by an eq condition of a
\* rule of the node and was not used on the path from the root
SplitOnEq(rules, tree, built, n) ==
    tree[n + 1].splitKey # <<>> =>
        /\ ReferencedBy(rules, built[n + 1].indices, tree[n + 1].splitKey, {"eq"})
        /\ tree[n + 1].splitKey \notin built[n + 1].usedKeys

\* a node whose rules have no eq condition on an unused key is a leaf holding
\* those rules
LeafWithoutEq(rules, tree, built, n) ==
    (\A key \in KeysOf(rules, built[n + 1].indices) \ built[n + 1].usedKeys :
        ~ReferencedBy(rules, built[n + 1].indices, key, {"eq"}))
    => /\ tree[n + 1].splitKey = <<>>
       /\ tree[n + 1].ruleIndices = built[n + 1].indices

\* C35: a key is a split key of a node only if some rule of the node's rule
\* set references it through an eq condition and it was not used on the path
\* from the root; a node whose rules reference unused keys only through
\* non-eq conditions is a leaf holding those rules.
C35_SplitCandidates ==
    \E built \in {BuildTasks(rules_, hashOrd)} :
        \A n \in 0..(Len(tree_) - 1) :
            /\ SplitOnEq(rules_, tree_, built, n)
            /\ LeafWithoutEq(rules_, tree_, built, n)

\* what the code guarantees: the split key is the key of some condition, of
\* whatever op, of a rule of the node and was not used on the path
C35_SplitOnAnyOp ==
    \E built \in {BuildTasks(rules_, hashOrd)} :
        \A n \in InternalNodes(tree_) :
            /\ tree_[n + 1].splitKey \in KeysOf(rules_, built[n + 1].indices)
            /\ tree_[n + 1].splitKey \notin built[n + 1].usedKeys

\* a node split on a key that its rules reference through lt only
C35_Witness ==
    \E built \in {BuildTasks(rules_, hashOrd)} :
        \E n \in InternalNodes(tree_) :
            /\ ReferencedBy(rules_, built[n + 1].indices, tree_[n + 1].splitKey, {"lt"})
            /\ ~ReferencedBy(rules_, built[n + 1].indices, tree_[n + 1].splitKey, {"eq"})
            /\ tree_[n + 1].branches = <<>>

(***************************************************************************)
(* C36  Compile termination and depth.                                     *)
(***************************************************************************)
\* the split keys of the nodes above the node of index n, from the root
RECURSIVE PathKeys(_, _, _)
PathKeys(tree, built, n) ==
    IF built[n + 1].parentIdx = -1 THEN <<>>
    ELSE Append(PathKeys(tree, built, built[n + 1].parentIdx),
                tree[built[n + 1].parentIdx + 1].splitKey)

\* the split keys from the root down to and including the node
KeysDownTo(tree, built, n) ==
    PathKeys(tree, built, n)
      \o (IF tree[n + 1].splitKey # <<>> THEN <<tree[n + 1].splitKey>> ELSE <<>>)

NoRepeat(seq) == \A i, j \in 1..Len(seq) : seq[i] = seq[j] => i = j

\* the child indices stored in the node
StoredChildren(node) ==
    {node.branches[k][2] : k \in 1..Len(node.branches)}
      \cup (IF node.defaultChild # -1 THEN {node.defaultChild} ELSE {})

\* C36: compileTree terminates (the loop ends with one finished node per
\* build task, and every stored child index is a later node of the array
\* built as a child of the node), no key is a split key twice on a path from
\* the root, no path has more than 5 internal nodes, and every node compiled
\* from 2 or fewer rules is a leaf.
C36_CompileDepth ==
    \E built \in {BuildTasks(rules_, hashOrd)} :
        /\ Len(built) = Len(tree_)
        /\ rules_ # <<>> => tree_ # <<>>
        /\ \A n \in 0..(Len(tree_) - 1) :
              /\ NoRepeat(KeysDownTo(tree_, built, n))
              /\ Len(KeysDownTo(tree_, built, n)) <= 5
              /\ Len(built[n + 1].indices) <= 2 => tree_[n + 1].splitKey = <<>>
              /\ \A c \in StoredChildren(tree_[n + 1]) :
                    /\ n < c /\ c < Len(tree_)
                    /\ built[c + 1].parentIdx = n

\* a leaf under five internal nodes that holds three rules with an unused
\* key: the depth test alone made it a leaf
C36_Witness ==
    \E built \in {BuildTasks(rules_, hashOrd)} :
        \E n \in 0..(Len(tree_) - 1) :
            /\ tree_[n + 1].splitKey = <<>>
            /\ Len(PathKeys(tree_, built, n)) = 5
            /\ Len(tree_[n + 1].ruleIndices) >= 3
            /\ pickSplitKey(rules_, built[n + 1].indices, built[n + 1].usedKeys,
                            hashOrd) # <<>>

(***************************************************************************)
(* C37  Push ordering.                                                     *)
(***************************************************************************)
PushStep == ret'.op = "pushEvent"

\* the events at the front of the buffer that are older than 24 h at now:
\* the longest prefix of expired events
ExpiredPrefix(events, now) ==
    CHOOSE k \in 0..Len(events) :
        /\ \A i \in 1..k : events[i].timestampMs < now - MAX_AGE_MS
        /\ k < Len(events) => events[k + 1].timestampMs >= now - MAX_AGE_MS

\* C37: a push first drops the expired events at the front, then, if
\* maxSize events are still held, removes exactly one, the oldest, and then
\* appends the new event as the newest; the surviving events keep their
\* order, and the pushed event is in the buffer after the push.
C37_PushOrdering ==
    [][PushStep =>
        \E k \in {ExpiredPrefix(events_, ret'.now)} :
            \E evicted \in {IF Len(events_) - k >= maxSize_ THEN 1 ELSE 0} :
                /\ events_' = SubSeq(events_, k + evicted + 1, Len(events_))
                                 \o <<ret'.event>>
                /\ ret'.expired = k
                /\ ret'.dropped = k + evicted
                /\ events_'[Len(events_')] = ret'.event]_vars

\* a push into a full buffer without expired events: exactly one event, the
\* oldest, was removed, and the pushed event, itself older than 24 h, is the
\* newest
C37_Witness ==
    /\ ret.op = "pushEvent"
    /\ ret.expired = 0
    /\ ret.dropped = 1
    /\ Len(events_) = maxSize_
    /\ ret.event.timestampMs < ret.now - MAX_AGE_MS

(***************************************************************************)
(* C38  No result, no firing.                                              *)
(***************************************************************************)
\* the deque after is what remains of the deque before when entries are
\* taken from its front: nothing was added
TailOf(after, before) ==
    /\ Len(after) <= Len(before)
    /\ after = SubSeq(before, Len(before) - Len(after) + 1, Len(before))

\* C38: an evaluate that returns an empty list (no rule matched, every
\* candidate in cooldown or rate-limited, or maxResults = 0) adds no entry to
\* lastFired, to the global deque or to any category deque.
C38_NoResultNoFiring ==
    [][(EvaluateStep /\ ret'.results = <<>>) =>
          /\ lastFired_' = lastFired_
          /\ TailOf(globalFirings_', globalFirings_)
          /\ DOMAIN categoryFirings_' = DOMAIN categoryFirings_
          /\ \A type \in DOMAIN categoryFirings_ :
                TailOf(categoryFirings_'[type], categoryFirings_[type])
          /\ firedLog' = firedLog]_vars

\* evaluate with maxResults = 0 returned nothing in a state where a rule of
\* the single leaf matches the context, is out of cooldown and within the
\* rate limits, after an earlier firing
C38_Witness ==
    /\ ret.op = "evaluate"
    /\ ret.maxResults = 0
    /\ ret.results = <<>>
    /\ Len(tree_) = 1
    /\ firedLog # <<>>
    /\ \E i \in 1..Len(rules_) :
          /\ rules_[i].enabled
          /\ ~InCooldown(rules_[i], ret.now, lastFired_)
          /\ LimitsFree(rules_[i], ret.now)
          /\ ConditionsMatch(rules_[i], ret.ctx, ret.now)

\* evaluate returned nothing because the only matching rule was rate-limited
C38_WitnessLimited ==
    /\ ret.op = "evaluate"
    /\ ret.maxResults = 5
    /\ ret.results = <<>>
    /\ Len(tree_) = 1
    /\ \E i \in 1..Len(rules_) :
          /\ rules_[i].enabled
          /\ ~InCooldown(rules_[i], ret.now, lastFired_)
          /\ ~LimitsFree(rules_[i], ret.now)
          /\ ConditionsMatch(rules_[i], ret.ctx, ret.now)

(***************************************************************************)
(* C39  Engine mutex coverage.                                             *)
(***************************************************************************)
\* the next step of the thread reads the rule array
ReadsRules(t) ==
    \/ At(t, {"evaluate"}, "matching") \/ At(t, {"evaluate"}, "in_buffer")
    \/ At(t, {"loadRules", "addRule", "removeRule"}, "locked")
    \/ At(t, {"loadRules", "addRule", "removeRule"}, "assigned")
    \/ At(t, {"exportRulesJson"}, "exporting")
    \/ At(t, {"ruleCount"}, "called")

\* the next step of the thread reads or writes rules, tree, lastFired, the
\* firing deques or the rate limits
AccessesEngine(t) == ReadsRules(t) \/ At(t, {"setLimits"}, "locked")

\* C39: every public operation that reads or writes the rule array, the
\* tree, lastFired, the firing deques or the rate limits (loadRules, addRule,
\* removeRule, evaluate, setLimits, exportRulesJson, ruleCount) does so only
\* while it holds the engine mutex, so no read of the rule array overlaps a
\* loadRules, addRule or removeRule of another thread.
C39_MutexCoverage ==
    /\ \A t \in Threads : AccessesEngine(t) => engineMu = t
    /\ \A t \in Threads : ReadsRules(t) => Writers(t) = {}

\* the operations other than ruleCount hold the mutex at every access, and
\* their reads overlap no write
C39_CoveredButRuleCount ==
    \A t \in Threads :
        (AccessesEngine(t) /\ local[t].op # "ruleCount") =>
            (engineMu = t /\ Writers(t) = {})

\* ruleCount is about to read rules_.size() while the other thread, inside
\* loadRules with the mutex, is about to assign rules_
C39_Witness ==
    /\ At(Consumer, {"ruleCount"}, "called")
    /\ At(Ingestion, {"loadRules"}, "locked")
    /\ engineMu = Ingestion
    /\ Len(RulesAfter(rules_, local[Ingestion])) # Len(rules_)



(***************************************************************************)
(* C40.  The snapshot of the bandit through the bridge.                    *)
(***************************************************************************)
\* the step that imports the snapshot the preceding getStats exported
ImportsExport ==
    /\ ret.op = "bridgeGetStats"
    /\ ret'.op = "bridgeLoadStats"
    /\ ret'.args = <<ret.json>>

\* every arm has its pulls and totalReward again
ArmsRestored ==
    \A a \in DOMAIN arms_ :
        /\ a \in DOMAIN arms_'
        /\ arms_'[a].pulls = arms_[a].pulls
        /\ arms_'[a].totalReward = arms_[a].totalReward

\* select with epsilon 0 answers as it did before the export
SameChoice ==
    \A actionIds \in BanditCandidates :
        SelectOutcomes(arms_', RZero, actionIds) = SelectOutcomes(arms_, RZero, actionIds)

\* C40: importing through the bridge the snapshot getStats exported gives
\* every arm the pulls and totalReward it had, so that select with
\* epsilon 0 chooses the candidate it chose before
C40_SnapshotRoundTrip == [][ImportsExport => ArmsRestored /\ SameChoice]_vars

\* what the code does: the export carries every arm's pulls and its total
\* to six digits, and every import of a text leaves no arm at all
C40_ExportOnly ==
    /\ [](ret.op = "bridgeGetStats" =>
            /\ {m.id : m \in ret.json} = DOMAIN arms_
            /\ \A m \in ret.json :
                  /\ m.pulls = arms_[m.id].pulls
                  /\ m.totalReward = Shown(arms_[m.id].totalReward))
    /\ [][ret'.op = "bridgeLoadStats" /\ ret'.loaded => arms_' = EmptyMap]_vars

\* a snapshot of arm b ahead of arm a was exported and imported, and no
\* arm is left
C40_Witness ==
    /\ ret.op = "bridgeLoadStats"
    /\ ret.loaded
    /\ \E ma, mb \in ret.args[1] :
          /\ ma.id = "a" /\ mb.id = "b"
          /\ ma.pulls > 0 /\ mb.pulls > 0
          /\ RLt(ma.avgReward, mb.avgReward)
    /\ arms_ = EmptyMap

====
